---- MODULE Spec2Model ----
(***************************************************************************)
(* Model of the DSAR redaction engine (src/src/redact.js, the v2 rewrite   *)
(* that starts at line 302, and src/src/redact-ai.js, the multi-stage      *)
(* variant).                                                               *)
(*                                                                         *)
(* Three specifications share this module:                                 *)
(*   Spec      the checkpoint and concurrency coordinator, redact(), of    *)
(*             both files (variable variant selects the file)              *)
(*   SpecCall  the retry protocol of callOpenAI                            *)
(*   SpecText  the text pipeline of v2 on strings                          *)
(* Each specification leaves the variables of the others at their initial  *)
(* values.                                                                 *)
(*                                                                         *)
(* Node runs one JavaScript job at a time: an action of Spec is the code   *)
(* that runs from one resumption of an async function to its next await.   *)
(***************************************************************************)
EXTENDS Integers, Sequences, FiniteSets, TLC

----------------------------------------------------------------------------
(* Bounds of the model *)

\* number of messages of the input collection data.messages
NumMessages == 3
\* size of the worker pool (CONCURRENCY, 50 in both files, scaled down)
Workers == 2
\* number of times redact() is started (first run and reruns)
MaxRuns == 2
\* largest value tried for MAX_MESSAGES_TO_PROCESS (0 stands for null)
MaxCap == 1
\* number of file writes that may throw, over all runs
MaxFaults == 1

(* Program constants *)
BATCH_SIZE == 1
MAX_RETRIES == 3
RETRY_DELAY_MS == 2000

\* process ids: the workers are 1..Workers, redact() itself is Main
Main == Workers + 1
NoProc == 0

VARIABLES
  \* ---- coordinator (Spec)
  variant,       \* "v2" (redact.js) or "ai" (redact-ai.js)
  cap,           \* MAX_MESSAGES_TO_PROCESS, 0 when null
  runs,          \* how many times redact() was started
  phase,         \* where redact() is
  checkpoint,    \* the in-memory checkpoint of redact()
  alreadyProcessed, \* local of redact(): processedCount as loaded
  batches,       \* local of redact(): the batches, each a sequence of ids
  batchIndex,    \* the shared cursor
  workers,       \* the worker pool, one record per worker
  mutex,         \* checkpointMutex: [locked, queue]
  disk,          \* the file CHECKPOINT_PATH
  backups,       \* the files CHECKPOINT_PATH.corrupted.<time>
  output,        \* the file OUTPUT_PATH
  audit,         \* the file AUDIT_PATH
  \* ---- history of the coordinator
  loadSeen,      \* what the last loadCheckpoint found and did
  lost,          \* ids claimed by an earlier run that ended without them on disk
  settled,       \* batches of this run whose AI call ran out of retries
  faults,        \* file writes that threw so far
  \* ---- callOpenAI (SpecCall)
  call,
  \* ---- text pipeline (SpecText)
  text

runVars == <<variant, cap, runs, phase, checkpoint, alreadyProcessed, batches,
             batchIndex, workers, mutex, disk, backups, output, audit,
             loadSeen, lost, settled, faults>>
vars == <<runVars, call, text>>

----------------------------------------------------------------------------
(* Sequences *)

Range(s) == {s[i] : i \in 1..Len(s)}
Min(a, b) == IF a < b THEN a ELSE b
\* Array.prototype.slice(from) and slice(0, n)
SliceFrom(s, from) == SubSeq(s, from + 1, Len(s))
Take(s, n) == SubSeq(s, 1, Min(n, Len(s)))
Ids(ms) == {ms[i].id : i \in 1..Len(ms)}
Count(ms, id) == Cardinality({i \in 1..Len(ms) : ms[i].id = id})

----------------------------------------------------------------------------
(* Messages.  The coordinator does not look inside a message: a message is *)
(* its id and the set of redaction stages whose result it carries.         *)

\* data.messages: message i has id i
InputMessages == [i \in 1..NumMessages |-> [id |-> i, red |-> {}]]

\* the stages processMessage applies, before the AI call of processBatch
DetStages == {"fields", "patterns", "paranoid"}
REDACTION_STAGES == <<"names", "companies", "contact">>

\* processMessage: structured fields, patterns and the paranoid pass
processMessage(m) == [id |-> m.id, red |-> m.red \cup DetStages]
\* the loop of processBatch that applies the AI items to each message
applyAI(m) == [id |-> m.id, red |-> m.red \cup {"ai"}]
\* applyStageRedactions of redact-ai.js, for one stage
applyStage(m, stageNo) == [id |-> m.id, red |-> m.red \cup {REDACTION_STAGES[stageNo]}]

AuditOf(ms) == [i \in 1..Len(ms) |-> [messageId |-> ms[i].id, redactions |-> ms[i].red]]
\* processBatch pushes an audit entry only for a message with redactions
AuditNonEmpty(ms) == SelectSeq(AuditOf(ms), LAMBDA e : e.redactions # {})

----------------------------------------------------------------------------
(* Checkpoint files *)

Absent == [kind |-> "absent"]
\* a complete JSON.stringify(checkpoint)
FileOf(cp) == [kind |-> "ok", cp |-> cp]
\* a write that stopped part way: the prefix of the JSON of a checkpoint
TornOf(cp) == [kind |-> "torn", of |-> cp.processedCount]

Parseable(file) == file.kind = "ok"

Fresh == [processedCount |-> 0, redactedMessages |-> <<>>, auditLog |-> <<>>]

\* the consistency check of v2's loadCheckpoint: processedCount is the truth,
\* a longer redactedMessages is trimmed
ValidateV2(cp) ==
  IF Len(cp.redactedMessages) > cp.processedCount
    THEN [cp EXCEPT !.redactedMessages = SubSeq(cp.redactedMessages, 1, cp.processedCount)]
    ELSE cp

\* "Validate checkpoint structure" of loadCheckpoint, both files: a missing
\* redactedMessages or auditLog becomes [], a missing processedCount 0
StructureOf(cp) ==
  [processedCount |-> IF "processedCount" \in DOMAIN cp THEN cp.processedCount ELSE 0,
   redactedMessages |-> IF "redactedMessages" \in DOMAIN cp THEN cp.redactedMessages
                        ELSE <<>>,
   auditLog |-> IF "auditLog" \in DOMAIN cp THEN cp.auditLog ELSE <<>>]

\* loadCheckpoint: the checkpoint it returns for a file
loadCheckpoint(v, file) ==
  IF file.kind = "ok"
    THEN (IF v = "v2" THEN ValidateV2(StructureOf(file.cp)) ELSE StructureOf(file.cp))
    ELSE Fresh

\* loadCheckpoint's catch block: the .corrupted.<time> files afterwards.
\* copyFileSync may itself fail, which is only logged.
backupCorrupted(file, bks, time, copyOk) ==
  IF file.kind = "torn" /\ copyOk
    THEN bks \cup {[at |-> time, content |-> file]}
    ELSE bks

\* fs.writeFileSync(CHECKPOINT_PATH, ...): "ok" writes the whole file, a
\* failing write (it throws) leaves the old file or a truncated one
WriteOutcomes == {"ok", "unchanged", "torn"}
\* the outcomes open to a write when n writes threw before
WritesAfter(n) == IF n < MaxFaults THEN WriteOutcomes ELSE {"ok"}
Thrown(n, how) == IF how = "ok" THEN n ELSE n + 1
saveCheckpoint(file, cp, how) ==
  CASE how = "ok" -> FileOf(cp)
    [] how = "torn" -> TornOf(cp)
    [] OTHER -> file

----------------------------------------------------------------------------
(* CheckpointMutex *)

FreeMutex == [locked |-> FALSE, queue |-> <<>>]

\* acquire(): takes the lock when free, else queues the caller's resolve
MutexAcquire(m, p) ==
  IF ~m.locked
    THEN [locked |-> TRUE, queue |-> m.queue]
    ELSE [locked |-> TRUE, queue |-> Append(m.queue, p)]

\* the mutant of release(): frees the flag also when it hands the lock over
MutexReleaseUnlocks(m) ==
  IF Len(m.queue) > 0
    THEN [locked |-> FALSE, queue |-> Tail(m.queue)]
    ELSE [locked |-> FALSE, queue |-> <<>>]

\* a second mutant of release(): hands the lock over but never frees the flag
MutexReleaseKeeps(m) ==
  IF Len(m.queue) > 0
    THEN [locked |-> m.locked, queue |-> Tail(m.queue)]
    ELSE [locked |-> m.locked, queue |-> <<>>]

\* release(): hands the lock to the first waiter, or frees it
MutexRelease(m) ==
  IF Len(m.queue) > 0
    THEN [locked |-> m.locked, queue |-> Tail(m.queue)]
    ELSE [locked |-> FALSE, queue |-> <<>>]

\* whose resolve release() calls
Granted(m) == IF Len(m.queue) > 0 THEN Head(m.queue) ELSE NoProc

----------------------------------------------------------------------------
(* The worker pool of redact() *)

WorkerIds == 1..Workers
NoExh == [hit |-> FALSE, applied |-> {}]

OffWorker == [pc |-> "off", cur |-> 0, stage |-> 0, msgs |-> <<>>, exh |-> NoExh]
DoneWorker == [OffWorker EXCEPT !.pc = "done"]
RejectedWorker == [OffWorker EXCEPT !.pc = "rejected"]

\* the batches of redact(): messagesToProcess cut into runs of BATCH_SIZE
NumBatches(ms) == (Len(ms) + BATCH_SIZE - 1) \div BATCH_SIZE
MakeBatches(ms) ==
  [b \in 1..NumBatches(ms) |->
     SubSeq(ms, (b - 1) * BATCH_SIZE + 1, Min(b * BATCH_SIZE, Len(ms)))]

\* messagesToProcess of redact(): the slice at processedCount, then the cap
messagesToProcess(all, from, limit) ==
  IF limit > 0 THEN Take(SliceFrom(all, from), limit) ELSE SliceFrom(all, from)

\* one turn of the loop of processNext (worker() in redact-ai.js) up to the
\* first await of the AI call: claim batches[batchIndex++] and start
\* processBatch (v2: processMessage on each message; ai: a deep clone), or
\* leave the loop.  bi is the cursor before the claim (0-based).
StartBatch(v, bs, bi) ==
  IF bi < Len(bs)
    THEN [pc |-> "call", cur |-> bi + 1,
          stage |-> IF v = "v2" THEN 0 ELSE 1,
          msgs |-> IF v = "v2"
                     THEN [i \in 1..Len(bs[bi + 1]) |-> processMessage(bs[bi + 1][i])]
                     ELSE bs[bi + 1],
          exh |-> NoExh]
    ELSE DoneWorker
\* the mutant of CursorAfter: the claim leaves the cursor where it was
CursorStays(bs, bi) == bi
CursorAfter(bs, bi) == IF bi < Len(bs) THEN bi + 1 ELSE bi

\* the workers after release() resolved the acquire() of process g
Grant(ws, g) ==
  IF g \in WorkerIds
    THEN [ws EXCEPT ![g].pc = IF ws[g].pc = "cwait" THEN "cheld" ELSE "held"]
    ELSE ws
GrantPhase(ph, g) ==
  IF g # Main THEN ph
  ELSE IF ph = "ewait" THEN "eheld"
  ELSE IF ph = "fwait" THEN "fheld"
  ELSE ph

\* how one attempt of callOpenAI can end: a response that parses ("ok": its
\* results are an array; "okBadShape": they are not, which callOpenAI does
\* not look at), or an error inside the try block
OkOutcomes == {"ok", "okBadShape"}
ErrorOutcomes == {"apiError", "empty", "timeout", "badJson"}

\* the mutant of RetryDelay: a constant delay
RetryDelayConstant(retryCount) == RETRY_DELAY_MS

\* the sleep before the retry that follows attempt number retryCount
RetryDelay(retryCount) == RETRY_DELAY_MS * (retryCount + 1)

\* one attempt of callOpenAI(messages, ..., retryCount) that ends with o:
\* return the results, or sleep and call itself with retryCount + 1, or,
\* when the retries are used up, return [] (v2) or rethrow (redact-ai.js)
OnAttempt(v, retryCount, o) ==
  IF o \in OkOutcomes
    THEN [kind |-> "return", results |-> o, wait |-> 0]
    ELSE IF retryCount < MAX_RETRIES
      THEN [kind |-> "retry", results |-> "none", wait |-> RetryDelay(retryCount)]
      ELSE IF v = "v2"
        THEN [kind |-> "return", results |-> "empty", wait |-> 0]
        ELSE [kind |-> "throw", results |-> "none", wait |-> 0]

\* callOpenAI as a whole, given how its successive attempts end
RECURSIVE callOpenAI(_, _, _)
callOpenAI(v, outs, retryCount) ==
  LET r == OnAttempt(v, retryCount, Head(outs))
  IN IF r.kind = "retry" /\ Len(outs) > 1
       THEN callOpenAI(v, Tail(outs), retryCount + 1)
       ELSE r

\* the runs of callOpenAI the coordinator distinguishes: a usable response,
\* a response of the wrong shape, and MAX_RETRIES + 1 failed attempts
AllFail == [i \in 1..(MAX_RETRIES + 1) |-> "timeout"]
CallRuns == {<<"ok">>, <<"okBadShape">>, AllFail}

\* the batches of this run whose AI call ran out of retries, with the stages
\* their messages carried at that moment, once the worker has left them
Settle(st, wk) ==
  IF wk.exh.hit
    THEN st \cup {[id |-> wk.msgs[i].id, applied |-> wk.exh.applied] : i \in 1..Len(wk.msgs)}
    ELSE st

----------------------------------------------------------------------------
(* Initial state of the coordinator: nothing on disk, redact() not started *)

CallIdle == [pc |-> "off"]
TextIdle == [pc |-> "off"]

RunIdle ==
  /\ runs = 0
  /\ phase = "idle"
  /\ checkpoint = Fresh
  /\ alreadyProcessed = 0
  /\ batches = <<>>
  /\ batchIndex = 0
  /\ workers = [w \in WorkerIds |-> OffWorker]
  /\ mutex = FreeMutex
  /\ disk = Absent
  /\ backups = {}
  /\ output = <<>>
  /\ audit = <<>>
  /\ loadSeen = [corrupt |-> FALSE, content |-> Absent, copyOk |-> FALSE, loaded |-> Fresh]
  /\ lost = {}
  /\ settled = {}
  /\ faults = 0

Init ==
  /\ variant \in {"v2", "ai"}
  /\ cap \in 0..MaxCap
  /\ RunIdle
  /\ call = CallIdle
  /\ text = TextIdle

\* redact() is started on a clean directory, and again after a run that
\* crashed or failed
Resumable == {"idle", "failed", "crashed"}
Running == {"workers", "fwait", "fheld", "writeOutput", "writeAudit", "unlink",
            "ewait", "eheld"}

\* ids of the batches claimed so far in this run
ClaimedIds == UNION {Ids(batches[b]) : b \in 1..batchIndex}
FileIds(file) == IF file.kind = "ok" THEN Ids(file.cp.redactedMessages) ELSE {}

(* redact() from its start to the end of the loop that starts the workers:  *)
(* loadCheckpoint, the early return, the slice, the cap, the batches, and   *)
(* CONCURRENCY calls of processNext, each running to its first await.       *)
StartRun ==
  /\ phase \in Resumable
  /\ runs < MaxRuns
  /\ \E copyOk \in (IF disk.kind = "torn" THEN BOOLEAN ELSE {FALSE}) :
       LET loaded == loadCheckpoint(variant, disk)
           todo == messagesToProcess(InputMessages, loaded.processedCount, cap)
           bs == MakeBatches(todo)
       IN
         /\ runs' = runs + 1
         /\ backups' = backupCorrupted(disk, backups, runs + 1, copyOk)
         /\ loadSeen' = [corrupt |-> disk.kind = "torn", content |-> disk,
                         copyOk |-> copyOk, loaded |-> loaded]
         /\ checkpoint' = loaded
         /\ alreadyProcessed' = loaded.processedCount
         /\ mutex' = FreeMutex
         /\ settled' = {}
         /\ IF loaded.processedCount >= NumMessages \/ Len(todo) = 0
              THEN /\ phase' = "noop"
                   /\ batches' = <<>>
                   /\ batchIndex' = 0
                   /\ workers' = [w \in WorkerIds |-> OffWorker]
              ELSE /\ phase' = "workers"
                   /\ batches' = bs
                   /\ batchIndex' = Min(Workers, Len(bs))
                   /\ workers' = [w \in WorkerIds |-> StartBatch(variant, bs, w - 1)]
  /\ UNCHANGED <<variant, cap, disk, output, audit, lost, faults, call, text>>

----------------------------------------------------------------------------
(* Workers *)

\* what a worker's batch looks like when processBatch (processBatchSafe)
\* returns it: v2 returns the processed messages also when the AI call gave
\* up; processBatchSafe's catch block returns the original batch
BatchResult(v, bs, wk, failed) ==
  IF v = "ai" /\ failed THEN bs[wk.cur] ELSE wk.msgs

\* the await of processBatch is over and processNext calls acquire()
ToAcquire(wk, m, catching) ==
  [wk EXCEPT !.pc = IF m.locked
                      THEN (IF catching THEN "cwait" ELSE "wait")
                      ELSE (IF catching THEN "cheld" ELSE "held")]

(* The AI call for the batch of worker w settles.  In v2, processBatch     *)
(* applies the items to the messages, goes on without items when           *)
(* callOpenAI gave up and returned [], and throws on results that are not  *)
(* an array.  In redact-ai.js a good response is applied and the next      *)
(* stage follows; a throw of callOpenAI or of the loop over the results is *)
(* caught by processBatchSafe, which returns the original batch.  When     *)
(* processBatch returns or throws, processNext calls                       *)
(* checkpointMutex.acquire() in the same job.                              *)
Attempt(w) ==
  /\ phase \in {"workers", "ewait", "eheld"}
  /\ workers[w].pc = "call"
  /\ \E outs \in CallRuns :
       LET wk == workers[w]
           r == callOpenAI(variant, outs, 0)
           good == r.kind = "return" /\ r.results = "ok"
           gaveUp == r.kind = "throw" \/ (r.kind = "return" /\ r.results = "empty")
           lastStage == variant = "v2" \/ wk.stage = Len(REDACTION_STAGES)
           applied == [i \in 1..Len(wk.msgs) |->
                         IF variant = "v2" THEN applyAI(wk.msgs[i])
                                           ELSE applyStage(wk.msgs[i], wk.stage)]
           throws == variant = "v2" /\ r.results = "okBadShape"
           safeCatch == variant = "ai" /\ ~good
           exh == IF gaveUp
                    THEN [hit |-> TRUE,
                          applied |-> UNION {wk.msgs[i].red : i \in 1..Len(wk.msgs)}]
                    ELSE wk.exh
       IN
         IF good /\ ~lastStage
           THEN /\ workers' = [workers EXCEPT ![w].msgs = applied,
                                              ![w].stage = wk.stage + 1]
                /\ UNCHANGED mutex
           ELSE /\ workers' = [workers EXCEPT ![w] =
                     ToAcquire([wk EXCEPT
                                  !.msgs = IF good THEN applied
                                           ELSE BatchResult(variant, batches, wk, safeCatch),
                                  !.exh = exh],
                               mutex, throws)]
                /\ mutex' = MutexAcquire(mutex, w)
  /\ UNCHANGED <<variant, cap, runs, phase, checkpoint, alreadyProcessed, batches,
                 batchIndex, disk, backups, output, audit, loadSeen, lost, settled,
                 faults, call, text>>

\* the append of a batch's results inside the critical section
AppendBatch(cp, ms) ==
  [processedCount |-> cp.processedCount + Len(ms),
   redactedMessages |-> cp.redactedMessages \o ms,
   auditLog |-> cp.auditLog \o AuditNonEmpty(ms)]

(* The critical section of processNext: push the results, advance          *)
(* processedCount, saveCheckpoint, release in finally.  After a good write *)
(* the worker goes round its loop and claims the next batch; a write that  *)
(* throws takes it to its catch block, which calls acquire() again.        *)
Critical(w) ==
  /\ phase \in {"workers", "ewait", "eheld"}
  /\ workers[w].pc = "held"
  /\ \E how \in WritesAfter(faults) :
       LET wk == workers[w]
           cp1 == AppendBatch(checkpoint, wk.msgs)
           m1 == MutexRelease(mutex)
           g == Granted(mutex)
       IN
         /\ checkpoint' = cp1
         /\ disk' = saveCheckpoint(disk, cp1, how)
         /\ faults' = Thrown(faults, how)
         /\ phase' = GrantPhase(phase, g)
         /\ IF how = "ok"
              THEN /\ workers' = [Grant(workers, g) EXCEPT
                                    ![w] = StartBatch(variant, batches, batchIndex)]
                   /\ batchIndex' = CursorAfter(batches, batchIndex)
                   /\ mutex' = m1
                   /\ settled' = Settle(settled, wk)
              ELSE /\ workers' = [Grant(workers, g) EXCEPT ![w] = ToAcquire(wk, m1, TRUE)]
                   /\ mutex' = MutexAcquire(m1, w)
                   /\ UNCHANGED <<batchIndex, settled>>
  /\ UNCHANGED <<variant, cap, runs, alreadyProcessed, batches, backups, output,
                 audit, loadSeen, lost, call, text>>

\* what the catch block of the worker adds before it saves: nothing in v2,
\* the unredacted batch and its length in redact-ai.js
CatchAppend(v, cp, bs, wk) ==
  IF v = "ai"
    THEN [cp EXCEPT !.redactedMessages = cp.redactedMessages \o bs[wk.cur],
                    !.processedCount = cp.processedCount + Len(bs[wk.cur])]
    ELSE cp

(* The critical section of the worker's catch block.  A write that throws  *)
(* here leaves the async function: the worker's promise is rejected.       *)
CatchCritical(w) ==
  /\ phase \in {"workers", "ewait", "eheld"}
  /\ workers[w].pc = "cheld"
  /\ \E how \in WritesAfter(faults) :
       LET wk == workers[w]
           cp1 == CatchAppend(variant, checkpoint, batches, wk)
           g == Granted(mutex)
       IN
         /\ checkpoint' = cp1
         /\ disk' = saveCheckpoint(disk, cp1, how)
         /\ faults' = Thrown(faults, how)
         /\ phase' = GrantPhase(phase, g)
         /\ mutex' = MutexRelease(mutex)
         /\ settled' = Settle(settled, wk)
         /\ IF how = "ok"
              THEN /\ workers' = [Grant(workers, g) EXCEPT
                                    ![w] = StartBatch(variant, batches, batchIndex)]
                   /\ batchIndex' = CursorAfter(batches, batchIndex)
              ELSE /\ workers' = [Grant(workers, g) EXCEPT ![w] = RejectedWorker]
                   /\ UNCHANGED batchIndex
  /\ UNCHANGED <<variant, cap, runs, alreadyProcessed, batches, backups, output,
                 audit, loadSeen, lost, call, text>>

----------------------------------------------------------------------------
(* redact() after the workers were started *)

AllDone == \A w \in WorkerIds : workers[w].pc = "done"
SomeRejected == \E w \in WorkerIds : workers[w].pc = "rejected"

\* the state redact() leaves behind when the process ends
EndRun ==
  /\ workers' = [w \in WorkerIds |-> OffWorker]
  /\ mutex' = FreeMutex
  /\ batchIndex' = 0
  /\ batches' = <<>>
  /\ settled' = {}
  /\ checkpoint' = Fresh
  /\ alreadyProcessed' = 0

(* Promise.all(workers) resolved: redact() calls acquire() for the final   *)
(* reload.                                                                 *)
PoolResolved ==
  /\ phase = "workers"
  /\ AllDone
  /\ phase' = IF mutex.locked THEN "fwait" ELSE "fheld"
  /\ mutex' = MutexAcquire(mutex, Main)
  /\ UNCHANGED <<variant, cap, runs, checkpoint, alreadyProcessed, batches, batchIndex,
                 workers, disk, backups, output, audit, loadSeen, lost, settled,
                 faults, call, text>>

(* Promise.all(workers) rejected: the catch block of redact() calls        *)
(* acquire(); the other workers are still running.                         *)
PoolRejected ==
  /\ phase = "workers"
  /\ SomeRejected
  /\ phase' = IF mutex.locked THEN "ewait" ELSE "eheld"
  /\ mutex' = MutexAcquire(mutex, Main)
  /\ UNCHANGED <<variant, cap, runs, checkpoint, alreadyProcessed, batches, batchIndex,
                 workers, disk, backups, output, audit, loadSeen, lost, settled,
                 faults, call, text>>

(* The final reload under the mutex: the checkpoint file, when it exists,  *)
(* replaces the in-memory checkpoint.  JSON.parse of a truncated file      *)
(* throws into the catch block of redact().                                *)
FinalReload ==
  /\ phase = "fheld"
  /\ IF disk.kind = "torn"
       THEN /\ phase' = "eheld"
            /\ mutex' = MutexAcquire(MutexRelease(mutex), Main)
            /\ UNCHANGED checkpoint
       ELSE /\ phase' = "writeOutput"
            /\ mutex' = MutexRelease(mutex)
            /\ checkpoint' = IF disk.kind = "ok" THEN disk.cp ELSE checkpoint
  /\ UNCHANGED <<variant, cap, runs, alreadyProcessed, batches, batchIndex, workers,
                 disk, backups, output, audit, loadSeen, lost, settled, faults, call,
                 text>>

(* fs.writeFileSync(OUTPUT_PATH, ...); a write that throws goes to the     *)
(* catch block of redact()                                                 *)
WriteOutput ==
  /\ phase = "writeOutput"
  /\ \E how \in WritesAfter(faults) \ {"torn"} :
       /\ faults' = Thrown(faults, how)
       /\ IF how = "ok"
            THEN /\ output' = checkpoint.redactedMessages
                 /\ phase' = "writeAudit"
                 /\ UNCHANGED mutex
            ELSE /\ phase' = "eheld"
                 /\ mutex' = MutexAcquire(mutex, Main)
                 /\ UNCHANGED output
  /\ UNCHANGED <<variant, cap, runs, checkpoint, alreadyProcessed, batches, batchIndex,
                 workers, disk, backups, audit, loadSeen, lost, settled, call, text>>

(* fs.writeFileSync(AUDIT_PATH, ...) *)
WriteAudit ==
  /\ phase = "writeAudit"
  /\ \E how \in WritesAfter(faults) \ {"torn"} :
       /\ faults' = Thrown(faults, how)
       /\ IF how = "ok"
            THEN /\ audit' = checkpoint.auditLog
                 /\ phase' = "unlink"
                 /\ UNCHANGED mutex
            ELSE /\ phase' = "eheld"
                 /\ mutex' = MutexAcquire(mutex, Main)
                 /\ UNCHANGED audit
  /\ UNCHANGED <<variant, cap, runs, checkpoint, alreadyProcessed, batches, batchIndex,
                 workers, disk, backups, output, loadSeen, lost, settled, call, text>>

(* "Clean up checkpoint on success": fs.unlinkSync(CHECKPOINT_PATH) *)
Unlink ==
  /\ phase = "unlink"
  /\ disk' = Absent
  /\ phase' = "done"
  /\ UNCHANGED <<variant, cap, runs, checkpoint, alreadyProcessed, batches, batchIndex,
                 workers, mutex, backups, output, audit, loadSeen, lost, settled,
                 faults, call, text>>

(* The catch block of redact() under the mutex: save the in-memory         *)
(* checkpoint, release, rethrow; the caller ends the process.              *)
ErrorSave ==
  /\ phase = "eheld"
  /\ \E how \in WritesAfter(faults) :
       /\ disk' = saveCheckpoint(disk, checkpoint, how)
       /\ faults' = Thrown(faults, how)
       /\ lost' = lost \cup (ClaimedIds \ FileIds(disk'))
  /\ phase' = "failed"
  /\ EndRun
  /\ UNCHANGED <<variant, cap, runs, backups, output, audit, loadSeen, call, text>>

(* The process is killed between two jobs: memory is gone, files stay. *)
Crash ==
  /\ phase \in Running
  /\ phase' = "crashed"
  /\ lost' = lost \cup (ClaimedIds \ FileIds(disk))
  /\ EndRun
  /\ UNCHANGED <<variant, cap, runs, disk, backups, output, audit, loadSeen, faults,
                 call, text>>

(* The process is killed while worker w is inside fs.writeFileSync of its  *)
(* critical section: the file was opened for writing and holds a prefix of *)
(* the new JSON.                                                           *)
CrashDuringWrite(w) ==
  /\ phase \in {"workers", "ewait", "eheld"}
  /\ workers[w].pc = "held"
  /\ disk' = TornOf(AppendBatch(checkpoint, workers[w].msgs))
  /\ phase' = "crashed"
  /\ lost' = lost \cup ClaimedIds
  /\ EndRun
  /\ UNCHANGED <<variant, cap, runs, backups, output, audit, loadSeen, faults, call,
                 text>>

Next ==
  \/ StartRun
  \/ \E w \in WorkerIds : Attempt(w)
  \/ \E w \in WorkerIds : Critical(w)
  \/ \E w \in WorkerIds : CatchCritical(w)
  \/ PoolResolved
  \/ PoolRejected
  \/ FinalReload
  \/ WriteOutput
  \/ WriteAudit
  \/ Unlink
  \/ ErrorSave
  \/ Crash
  \/ \E w \in WorkerIds : CrashDuringWrite(w)

Spec == Init /\ [][Next]_vars

----------------------------------------------------------------------------
(* loadCheckpoint on a checkpoint file that redact() did not write itself  *)
(* (SpecLoad): any JSON object, with or without the three fields, whose    *)
(* redactedMessages, where it has them, are the first messages of the      *)
(* input.                                                                  *)

HeldMessages(k) == [i \in 1..k |-> processMessage(InputMessages[i])]
WholeCheckpoints ==
  {[processedCount |-> n, redactedMessages |-> HeldMessages(k),
    auditLog |-> AuditNonEmpty(HeldMessages(k))] : n \in 0..NumMessages, k \in 0..NumMessages}
Without(cp, fields) == [f \in DOMAIN cp \ fields |-> cp[f]]
ParseableFiles ==
  {FileOf(Without(cp, missing)) :
     cp \in WholeCheckpoints,
     missing \in SUBSET {"processedCount", "redactedMessages", "auditLog"}}

InitLoad ==
  /\ variant \in {"v2", "ai"}
  /\ cap \in 0..MaxCap
  /\ runs = 0
  /\ phase = "idle"
  /\ checkpoint = Fresh
  /\ alreadyProcessed = 0
  /\ batches = <<>>
  /\ batchIndex = 0
  /\ workers = [w \in WorkerIds |-> OffWorker]
  /\ mutex = FreeMutex
  /\ disk \in ParseableFiles
  /\ backups = {}
  /\ output = <<>>
  /\ audit = <<>>
  /\ loadSeen = [corrupt |-> FALSE, content |-> Absent, copyOk |-> FALSE, loaded |-> Fresh]
  /\ lost = {}
  /\ settled = {}
  /\ faults = 0
  /\ call = CallIdle
  /\ text = TextIdle

\* redact() up to the start of the workers
SpecLoad == InitLoad /\ [][StartRun]_vars

----------------------------------------------------------------------------
(* callOpenAI, attempt by attempt (SpecCall).  call.outs is how the        *)
(* attempts so far ended, call.waits the sleeps taken between them.        *)

CallStart == [pc |-> "attempt", retryCount |-> 0, outs |-> <<>>, waits |-> <<>>,
              result |-> "none"]

InitCall ==
  /\ variant \in {"v2", "ai"}
  /\ cap = 0
  /\ RunIdle
  /\ call = CallStart
  /\ text = TextIdle

(* The try block of callOpenAI ends: with a parsed response, which is      *)
(* returned, or with an error, which the catch block answers with a sleep  *)
(* or, when retryCount reached MAX_RETRIES, with [] (v2) or a rethrow.     *)
AttemptEnds ==
  /\ call.pc = "attempt"
  /\ \E o \in OkOutcomes \cup ErrorOutcomes :
       LET r == OnAttempt(variant, call.retryCount, o)
       IN call' = [call EXCEPT
                     !.outs = Append(call.outs, o),
                     !.pc = CASE r.kind = "retry" -> "sleep"
                              [] r.kind = "return" -> "returned"
                              [] OTHER -> "thrown",
                     !.waits = IF r.kind = "retry" THEN Append(call.waits, r.wait)
                                                   ELSE call.waits,
                     !.result = r.results]
  /\ UNCHANGED <<runVars, text>>

(* sleep() is over: return callOpenAI(messages, retryCount + 1) *)
SleepEnds ==
  /\ call.pc = "sleep"
  /\ call' = [call EXCEPT !.pc = "attempt", !.retryCount = call.retryCount + 1]
  /\ UNCHANGED <<runVars, text>>

NextCall == AttemptEnds \/ SleepEnds

SpecCall == InitCall /\ [][NextCall]_vars

\* the attempts of a call with every error replaced by the same one
SameError(outs) ==
  [i \in 1..Len(outs) |-> IF outs[i] \in ErrorOutcomes THEN "apiError" ELSE outs[i]]

\* C10: every failed attempt is followed by a retry while fewer than
\* MAX_RETRIES retries were made, so a call makes at most MAX_RETRIES + 1
\* attempts; the wait before the k-th retry is RETRY_DELAY_MS * k; and a
\* call ends the same way whichever errors (timeout or other) its attempts
\* met.
RetryProtocol ==
  /\ Len(call.outs) <= MAX_RETRIES + 1
  /\ Len(call.waits) <= MAX_RETRIES
  /\ \A k \in 1..Len(call.waits) : call.waits[k] = RETRY_DELAY_MS * k
  /\ call.pc = "sleep"
       => /\ call.outs[Len(call.outs)] \in ErrorOutcomes
          /\ Len(call.waits) = Len(call.outs)
  /\ call.pc \in {"returned", "thrown"}
       => LET last == call.outs[Len(call.outs)]
              whole == callOpenAI(variant, SameError(call.outs), 0)
          IN /\ last \in ErrorOutcomes => Len(call.outs) = MAX_RETRIES + 1
             /\ Len(call.waits) = Len(call.outs) - 1
             /\ whole.results = call.result
             /\ (whole.kind = "throw") <=> (call.pc = "thrown")
\* C10 witness: a call has used up its retries, one of its attempts having
\* timed out and another one having failed otherwise
RetriesUsedUp ==
  /\ call.pc \in {"returned", "thrown"}
  /\ Len(call.outs) = MAX_RETRIES + 1
  /\ call.outs[Len(call.outs)] \in ErrorOutcomes
  /\ "timeout" \in Range(call.outs)
  /\ "apiError" \in Range(call.outs)
  /\ call.waits = <<RETRY_DELAY_MS, 2 * RETRY_DELAY_MS, 3 * RETRY_DELAY_MS>>

\* C11: a call whose responses could not be parsed, also after the cleanup,
\* ends with zero detections; it does not end with an error thrown into
\* the batch.
UnparsedFallsBackToEmpty ==
  (/\ call.pc \in {"returned", "thrown"}
   /\ \A k \in 1..Len(call.outs) : call.outs[k] = "badJson")
    => call.pc = "returned" /\ call.result = "empty"

----------------------------------------------------------------------------
(* Properties of the coordinator *)

AllIds == 1..NumMessages
\* what the checkpoint file holds of the work done
DurableCount == IF disk.kind = "ok" THEN disk.cp.processedCount ELSE 0
\* who is between a completed acquire() and its release()
Holders ==
  {w \in WorkerIds : workers[w].pc \in {"held", "cheld"}}
    \cup (IF phase \in {"fheld", "eheld"} THEN {Main} ELSE {})
Waiters == {w \in WorkerIds : workers[w].pc \in {"wait", "cwait"}}

\* C2: when a run that resumed from a checkpoint with processedCount = N > 0
\* completes (no cap configured, no write ever threw), the final
\* redactedMessages has one entry per input message id: as many entries as
\* input messages, no id twice, no id missing.
ResumeExactlyOnce ==
  (phase = "done" /\ alreadyProcessed > 0 /\ cap = 0 /\ faults = 0)
    => /\ Len(checkpoint.redactedMessages) = NumMessages
       /\ \A id \in AllIds : Count(checkpoint.redactedMessages, id) = 1

\* C3: a batch whose AI call failed on every attempt is in the checkpoint
\* once the worker has written it: each of its messages exactly once (first
\* run, so nothing was resumed), carrying every redaction applied before the
\* failing call.
ExhaustedBatchKept ==
  \A s \in settled :
    /\ runs = 1 => Count(checkpoint.redactedMessages, s.id) = 1
    /\ \A i \in 1..Len(checkpoint.redactedMessages) :
         checkpoint.redactedMessages[i].id = s.id
           => s.applied \subseteq checkpoint.redactedMessages[i].red

\* C4: at most one process is between a completed acquire() and its
\* release(), the lock is taken while there is one, and nobody waits for a
\* free lock.
AtMostOneWriter ==
  /\ Cardinality(Holders) <= 1
  /\ Holders # {} => mutex.locked
  /\ Waiters # {} => mutex.locked
\* C4 witness: one worker is in its critical section while the other one
\* waits in the queue of the mutex
OneWritesOneWaits ==
  /\ \E w \in WorkerIds : workers[w].pc = "held"
  /\ \E w \in WorkerIds : workers[w].pc = "wait" /\ Len(mutex.queue) > 0

\* C5: while no write has thrown, the checkpoint file, when it exists, is
\* one complete snapshot, also after a crash in the middle of a write.
CheckpointFileWhole ==
  faults = 0 => disk.kind \in {"absent", "ok"}

\* C6: the messages of a batch that an earlier run claimed and never got
\* into the checkpoint file are in the final collection when a later run
\* completes (no cap configured, no write ever threw).
LostBatchReprocessed ==
  (phase = "done" /\ cap = 0 /\ faults = 0) => lost \subseteq Ids(checkpoint.redactedMessages)

\* C7: the processedCount of the in-memory checkpoint never exceeds what
\* the checkpoint file holds.
CountOnlyAfterWrite ==
  phase \in Running => checkpoint.processedCount <= DurableCount

\* C8: when the checkpoint file has been deleted, every input message was
\* processed (processedCount is the input length, every id is in
\* redactedMessages) and the output and audit files hold the final data.
DeletedOnlyWhenComplete ==
  phase = "done"
    => /\ checkpoint.processedCount = NumMessages
       /\ Ids(checkpoint.redactedMessages) = AllIds
       /\ output = checkpoint.redactedMessages
       /\ audit = checkpoint.auditLog

\* C9: whenever loadCheckpoint found an unparseable file, it returned a
\* fresh checkpoint and a .corrupted.<time> backup holds the corrupted
\* content, also after later checkpoint writes replaced the original file.
CorruptAlwaysBackedUp ==
  loadSeen.corrupt
    => /\ loadSeen.loaded = Fresh
       /\ \E b \in backups : b.content = loadSeen.content

\* C12: while a run is alive, the cursor batchIndex never decreases and
\* never passes the number of batches; a step that moves it from b to b'
\* hands each of the batches b+1..b' to exactly one worker, no worker takes
\* a batch outside that range, and no two workers hold the same batch.
ClaimedByExactlyOne ==
  [][phase' \in Running =>
       LET before == IF runs' # runs THEN 0 ELSE batchIndex
           takers == {w \in WorkerIds :
                        /\ workers'[w].cur # 0
                        /\ runs' # runs \/ workers'[w].cur # workers[w].cur}
       IN /\ batchIndex' >= before
          /\ batchIndex' <= Len(batches')
          /\ \A w \in takers : workers'[w].cur \in (before + 1)..batchIndex'
          /\ \A i \in (before + 1)..batchIndex' :
               Cardinality({w \in takers : workers'[w].cur = i}) = 1
          /\ \A v, w \in WorkerIds :
               (v # w /\ workers'[v].cur # 0) => workers'[v].cur # workers'[w].cur]_vars
\* C12 witness: the cursor has reached the last batch and every worker of
\* the pool holds a batch of its own
EveryWorkerItsOwnBatch ==
  /\ phase = "workers"
  /\ batchIndex = Len(batches)
  /\ batchIndex = NumMessages
  /\ \A w \in WorkerIds : workers[w].cur # 0
  /\ Cardinality({workers[w].cur : w \in WorkerIds}) = Workers

\* the event loop runs every job that is ready: a step that can be taken is
\* taken (a kill of the process is a step like the others, and never owed)
FairSpec == Spec /\ WF_vars(Next)

\* who is queued inside acquire()
Queued == Waiters \cup (IF phase \in {"fwait", "ewait"} THEN {Main} ELSE {})
AllFinished == \A w \in WorkerIds : workers[w].pc \in {"done", "rejected"}

----------------------------------------------------------------------------
(* Strings, as JavaScript's String methods treat them.  A character is a   *)
(* string of length one.                                                   *)

\* the largest repetition count tried for an unbounded quantifier
MaxRepeat == 60

UpperSeq == "ABCDEFGHIJKLMNOPQRSTUVWXYZ"
LowerSeq == "abcdefghijklmnopqrstuvwxyz"
DigitSeq == "0123456789"
CharAt(s, i) == SubSeq(s, i, i)
CharsOf(s) == {CharAt(s, i) : i \in 1..Len(s)}
AZ == CharsOf(UpperSeq)
az == CharsOf(LowerSeq)
Digits == CharsOf(DigitSeq)
Letters == AZ \cup az
Alnum == Letters \cup Digits
\* \w and \s
WordChars == Alnum \cup {"_"}
Space == {" ", "\n", "\t", "\r"}

LowerOf ==
  [c \in AZ |-> LET i == CHOOSE j \in 1..Len(UpperSeq) : CharAt(UpperSeq, j) = c
                IN CharAt(LowerSeq, i)]
UpperOf ==
  [c \in az |-> LET i == CHOOSE j \in 1..Len(LowerSeq) : CharAt(LowerSeq, j) = c
                IN CharAt(UpperSeq, i)]
toLowerChar(c) == IF c \in AZ THEN LowerOf[c] ELSE c
toUpperChar(c) == IF c \in az THEN UpperOf[c] ELSE c

\* String.prototype.toLowerCase
RECURSIVE toLowerCase(_)
toLowerCase(s) ==
  IF Len(s) = 0 THEN ""
  ELSE IF Len(s) = 1 THEN toLowerChar(s)
  ELSE LET h == Len(s) \div 2
       IN toLowerCase(SubSeq(s, 1, h)) \o toLowerCase(SubSeq(s, h + 1, Len(s)))

\* String.prototype.trim
trimStart(s) ==
  LET kept == {i \in 1..Len(s) : CharAt(s, i) \notin Space}
  IN IF kept = {} THEN ""
     ELSE SubSeq(s, CHOOSE i \in kept : \A j \in kept : i <= j, Len(s))
trimEnd(s) ==
  LET kept == {i \in 1..Len(s) : CharAt(s, i) \notin Space}
  IN IF kept = {} THEN ""
     ELSE SubSeq(s, 1, CHOOSE i \in kept : \A j \in kept : i >= j)
trim(s) == trimEnd(trimStart(s))

\* the positions at which sub occurs in s, and String.prototype.includes
OccurrencesOf(sub, s) ==
  {i \in 1..(Len(s) - Len(sub) + 1) : SubSeq(s, i, i + Len(sub) - 1) = sub}
includes(s, sub) == OccurrencesOf(sub, s) # {}
\* String.prototype.replace(string, string): the first occurrence only
replaceFirst(s, sub, by) ==
  IF includes(s, sub)
    THEN LET i == CHOOSE j \in OccurrencesOf(sub, s) :
                    \A k \in OccurrencesOf(sub, s) : j <= k
         IN SubSeq(s, 1, i - 1) \o by \o SubSeq(s, i + Len(sub), Len(s))
    ELSE s

----------------------------------------------------------------------------
(* Regular expressions.  An expression is a sequence of items; Match is    *)
(* the backtracking matcher of JavaScript: quantifiers are greedy, the     *)
(* alternatives of a group are tried in order, and the first way to match  *)
(* the whole expression wins.                                              *)

\* [...]{lo,hi} and [^...]{lo,hi}
Set(S, lo, hi) == [t |-> "set", s |-> S, neg |-> FALSE, min |-> lo, max |-> hi]
NotSet(S, lo, hi) == [t |-> "set", s |-> S, neg |-> TRUE, min |-> lo, max |-> hi]
One(S) == Set(S, 1, 1)
Opt(S) == Set(S, 0, 1)
Star(S) == Set(S, 0, MaxRepeat)
Plus(S) == Set(S, 1, MaxRepeat)
\* a literal string
Lit(str) == [t |-> "lit", s |-> str]
\* (?:a|b|...){lo,hi}, each alternative an expression
Grp(alts, lo, hi) == [t |-> "grp", alts |-> alts, min |-> lo, max |-> hi]
\* (?:w1|w2|...) for literal strings
Words(ws) == Grp([i \in 1..Len(ws) |-> <<Lit(ws[i])>>], 1, 1)
\* \b, ^ and $ under the m flag, $ without it
WB == [t |-> "wb"]
BOL == [t |-> "bol"]
EOL == [t |-> "eol"]
EOS == [t |-> "eos"]
\* ( ... ) as capture group n
Cap(n, items) == <<[t |-> "open", n |-> n]>> \o items \o <<[t |-> "close", n |-> n]>>

NoCaps == <<<<0, 0>>, <<0, 0>>>>
NoMatch == [ok |-> FALSE, end |-> 0, caps |-> NoCaps]

\* does character c belong to the class of item it (ci: the i flag)
InSet(c, it, ci) ==
  LET hit == IF ci
               THEN c \in it.s \/ toLowerChar(c) \in it.s \/ toUpperChar(c) \in it.s
               ELSE c \in it.s
  IN hit # it.neg

\* how many characters from position i on belong to the class, at most it.max
RunLen(s, i, it, ci) ==
  LET most == Min(it.max, Len(s) - i + 1)
      stops == {n \in 0..(most - 1) : ~InSet(CharAt(s, i + n), it, ci)}
  IN IF stops = {} THEN most ELSE CHOOSE n \in stops : \A m \in stops : n <= m

LitAt(s, i, lit, ci) ==
  /\ i + Len(lit) - 1 <= Len(s)
  /\ IF ci THEN toLowerCase(SubSeq(s, i, i + Len(lit) - 1)) = toLowerCase(lit)
           ELSE SubSeq(s, i, i + Len(lit) - 1) = lit

IsWordAt(s, i) == i >= 1 /\ i <= Len(s) /\ CharAt(s, i) \in WordChars
AtWordBoundary(s, i) == IsWordAt(s, i - 1) # IsWordAt(s, i)
AtLineStart(s, i) == i = 1 \/ CharAt(s, i - 1) = "\n"
AtLineEnd(s, i) == i = Len(s) + 1 \/ CharAt(s, i) = "\n"

\* one repetition less of a group
Dec(it) == [it EXCEPT !.min = IF it.min > 0 THEN it.min - 1 ELSE 0, !.max = it.max - 1]

\* Match(items, s, i, caps, ci): the expression matched at position i of s;
\* end is the position after the match
RECURSIVE Match(_, _, _, _, _)

\* a class that can take n characters here: the longest run, down to min,
\* after which the rest of the expression matches
TrySet(rest, s, i, n, min, caps, ci) ==
  LET tries == {<<k, Match(rest, s, i + k, caps, ci)>> : k \in min..n}
  IN IF \E p \in tries : p[2].ok
       THEN (CHOOSE p \in tries : p[2].ok /\ \A q \in tries : q[2].ok => q[1] <= p[1])[2]
       ELSE NoMatch

\* the alternatives of a group, in their order, each followed by the
\* group's further repetitions and the rest of the expression; a group that
\* need not match is skipped when no alternative leads to a match
TryAlts(it, rest, s, i, caps, ci) ==
  LET tries == {<<k, Match(it.alts[k] \o <<Dec(it)>> \o rest, s, i, caps, ci)>> :
                  k \in 1..Len(it.alts)}
  IN IF \E p \in tries : p[2].ok
       THEN (CHOOSE p \in tries : p[2].ok /\ \A q \in tries : q[2].ok => p[1] <= q[1])[2]
       ELSE IF it.min = 0 THEN Match(rest, s, i, caps, ci)
       ELSE NoMatch

Match(items, s, i, caps, ci) ==
  CASE Len(items) = 0 -> [ok |-> TRUE, end |-> i, caps |-> caps]
    [] items[1].t = "lit" /\ LitAt(s, i, items[1].s, ci) ->
         Match(Tail(items), s, i + Len(items[1].s), caps, ci)
    [] items[1].t = "set" ->
         TrySet(Tail(items), s, i, RunLen(s, i, items[1], ci), items[1].min, caps, ci)
    [] items[1].t = "grp" /\ items[1].max > 0 ->
         TryAlts(items[1], Tail(items), s, i, caps, ci)
    [] items[1].t = "grp" -> Match(Tail(items), s, i, caps, ci)
    [] items[1].t = "wb" /\ AtWordBoundary(s, i) -> Match(Tail(items), s, i, caps, ci)
    [] items[1].t = "bol" /\ AtLineStart(s, i) -> Match(Tail(items), s, i, caps, ci)
    [] items[1].t = "eol" /\ AtLineEnd(s, i) -> Match(Tail(items), s, i, caps, ci)
    [] items[1].t = "eos" /\ i = Len(s) + 1 -> Match(Tail(items), s, i, caps, ci)
    [] items[1].t = "open" ->
         Match(Tail(items), s, i, [caps EXCEPT ![items[1].n] = <<i, i>>], ci)
    [] items[1].t = "close" ->
         Match(Tail(items), s, i,
               [caps EXCEPT ![items[1].n] = <<caps[items[1].n][1], i>>], ci)
    [] OTHER -> NoMatch

\* the matches of a g-flag expression in s, left to right: each match is
\* the one at the first position, from lastIndex i on, where the expression
\* matches (hits: all the positions where it does)
RECURSIVE FindFrom(_, _, _, _, _)
FindFrom(items, s, i, ci, hits) ==
  LET ahead == {j \in hits : j >= i}
  IN IF ahead = {}
       THEN <<>>
       ELSE LET j == CHOOSE k \in ahead : \A m \in ahead : k <= m
                r == Match(items, s, j, NoCaps, ci)
            IN <<[start |-> j, end |-> r.end, caps |-> r.caps]>>
                 \o FindFrom(items, s, IF r.end > j THEN r.end ELSE j + 1, ci, hits)
FindAll(items, s, ci) ==
  FindFrom(items, s, 1, ci, {j \in 1..(Len(s) + 1) : Match(items, s, j, NoCaps, ci).ok})
\* RegExp.prototype.test
test(items, s, ci) == \E i \in 1..(Len(s) + 1) : Match(items, s, i, NoCaps, ci).ok

\* the text of a match and of its capture group n
MatchText(s, m) == SubSeq(s, m.start, m.end - 1)
GroupText(s, m, n) == SubSeq(s, m.caps[n][1], m.caps[n][2] - 1)

----------------------------------------------------------------------------
(* The data subject and the word list of redact.js *)

DATA_SUBJECT ==
  [name |-> "John Gaskell",
   email |-> "john@freightlink.co.uk",
   nameVariations |-> <<"john gaskell", "john", "gaskell", "j. gaskell", "j gaskell",
                        "mr gaskell", "mr. gaskell">>,
   emailVariations |-> <<"john@freightlink.co.uk">>]

\* isDataSubject(text): equal to a variation, or holding the full name
isDataSubject(str) ==
  IF Len(str) = 0
    THEN FALSE
    ELSE LET lower == trim(toLowerCase(str))
         IN \/ \E k \in 1..Len(DATA_SUBJECT.emailVariations) :
                 lower = toLowerCase(DATA_SUBJECT.emailVariations[k])
            \/ \E k \in 1..Len(DATA_SUBJECT.nameVariations) :
                 lower = toLowerCase(DATA_SUBJECT.nameVariations[k])
            \/ includes(lower, "john gaskell")

\* containsDataSubject(text): holding any variation
containsDataSubject(str) ==
  IF Len(str) = 0
    THEN FALSE
    ELSE LET lower == toLowerCase(str)
         IN \/ \E k \in 1..Len(DATA_SUBJECT.nameVariations) :
                 includes(lower, toLowerCase(DATA_SUBJECT.nameVariations[k]))
            \/ \E k \in 1..Len(DATA_SUBJECT.emailVariations) :
                 includes(lower, toLowerCase(DATA_SUBJECT.emailVariations[k]))

COMMON_WORDS ==
  {"hi", "hello", "dear", "morning", "afternoon", "evening", "regards",
   "thanks", "thank", "cheers", "best", "kind", "sincerely", "yours",
   "manager", "director", "head", "team", "department", "customer",
   "service", "services", "sales", "support", "logistics", "operations",
   "booking", "bookings", "account", "accounts", "export", "import",
   "freight", "delivery", "collection", "order", "orders", "please",
   "note", "attached", "following", "regarding", "subject", "update",
   "confirmation", "enquiry", "query", "request", "today", "tomorrow",
   "monday", "tuesday", "wednesday", "thursday", "friday", "saturday",
   "sunday", "january", "february", "march", "april", "may", "june",
   "july", "august", "september", "october", "november", "december",
   "email", "sent", "received", "forwarded", "replied", "website", "link",
   "click", "login", "password", "uk", "ireland", "dublin", "london",
   "manchester", "leeds", "preston", "birmingham", "ashbourne", "cork",
   "belfast", "ltd", "limited", "inc", "incorporated", "plc", "llc",
   "corp", "corporation", "the", "and", "for", "with", "from", "this",
   "that", "here", "there", "will", "would", "could", "should", "have",
   "has", "been"}

----------------------------------------------------------------------------
(* PATTERNS of redact.js.  Each expression is written item by item after   *)
(* its literal; flags says whether it carries the i flag.                  *)

\* [-.\s] and [A-Z]{1,2}\d[A-Z\d]?\s*\d[A-Z]{2} (a UK postcode) and
\* [A-Z]\d{2}\s*[A-Z0-9]{4} (an Eircode)
PhoneSep == {"-", "."} \cup Space
UKPostcode ==
  <<Set(AZ, 1, 2), One(Digits), Opt(AZ \cup Digits), Star(Space), One(Digits),
    Set(AZ, 2, 2)>>
Eircode == <<One(AZ), Set(Digits, 2, 2), Star(Space), Set(AZ \cup Digits, 4, 4)>>
\* (?:[,\s]?\d{3})*(?:\.\d{2})?
Thousands ==
  <<Grp(<< <<Opt({","} \cup Space), Set(Digits, 3, 3)>> >>, 0, MaxRepeat),
    Grp(<< <<Lit("."), Set(Digits, 2, 2)>> >>, 0, 1)>>
\* (?:number|no\.?)
NumberOrNo == Grp(<< <<Lit("number")>>, <<Lit("no"), Opt({"."})>> >>, 1, 1)
StreetWords ==
  <<"Street", "St", "Road", "Rd", "Avenue", "Ave", "Lane", "Ln", "Drive",
   "Dr", "Way", "Close", "Court", "Ct", "Place", "Pl", "Crescent", "Cres",
   "Park", "Gardens", "Gdn", "Terrace", "Walk", "Row", "Square", "Sq",
   "Hill", "Rise", "Green", "Grove", "Mews">>

PATTERNS ==
  [email |->
     [ci |-> FALSE,
      re |-> <<WB, Plus(Alnum \cup {".", "_", "%", "+", "-"}), Lit("@"),
               Plus(Alnum \cup {".", "-"}), Lit("."),
               Set(Letters \cup {"|"}, 2, MaxRepeat), WB>>],
   phone |->
     <<[ci |-> FALSE,
        re |-> <<WB,
                 Grp(<< <<Lit("+"), Set(Digits, 1, 3), Opt(PhoneSep)>> >>, 0, 1),
                 Opt({"("}), Set(Digits, 2, 5), Opt({")"}), Opt(PhoneSep),
                 Set(Digits, 3, 4), Opt(PhoneSep), Set(Digits, 3, 4), WB>>],
       [ci |-> FALSE,
        re |-> <<WB, Lit("0"), Set(Digits, 2, 4), Opt(PhoneSep), Set(Digits, 3, 4),
                 Opt(PhoneSep), Set(Digits, 3, 4), WB>>],
       [ci |-> FALSE,
        re |-> <<WB, Lit("+"), Set(Digits, 10, 15), WB>>]>>,
   url |->
     [ci |-> TRUE,
      re |-> <<WB,
               Grp(<< <<Lit("http"), Opt({"s"}), Lit("://")>> >>, 0, 1),
               Grp(<< <<Lit("www.")>> >>, 0, 1),
               One(Alnum), Star(Alnum \cup {"-"}), Lit("."),
               Set(Letters, 2, MaxRepeat),
               Grp(<< <<Lit("/"), NotSet(Space, 0, MaxRepeat)>> >>, 0, 1),
               WB>>],
   reference |->
     <<[ci |-> TRUE,
        re |-> <<WB,
                 Words(<<"ref", "job", "order", "quote", "invoice", "po", "booking",
                         "customer", "account", "a/c">>),
                 Star(Space \cup {"."}),
                 Grp(<< <<Lit("no"), Opt({"."})>>, <<Lit("number")>>, <<Lit("#")>> >>, 0, 1),
                 Star(Space \cup {".", ":", "=", "-"}),
                 Plus(Digits), WB>>],
       [ci |-> FALSE,
        re |-> <<WB, Set(AZ, 1, 3), Opt({"-"}), Set(Digits, 4, MaxRepeat), Opt({"-"}),
                 Star(Digits), WB>>],
       [ci |-> FALSE,
        re |-> <<WB, Set(Digits, 5, MaxRepeat), WB>>],
       [ci |-> TRUE,
        re |-> <<WB, Words(<<"Job No", "Customer No", "Account ID", "A/C no">>),
                 Star(Space \cup {".", ":"}), Plus(Digits), WB>>]>>,
   \* of the class [£$€] the model keeps "$"
   currency |->
     <<[ci |-> FALSE,
        re |-> <<One({"$"}), Star(Space), Set(Digits, 1, 3)>> \o Thousands \o <<WB>>],
       [ci |-> TRUE,
        re |-> <<WB, Set(Digits, 1, 3)>> \o Thousands
                 \o <<Star(Space),
                      Grp(<< <<Lit("pound"), Opt({"s"})>>, <<Lit("GBP")>>,
                             <<Lit("EUR")>>, <<Lit("USD")>> >>, 1, 1),
                      WB>>]>>,
   companyReg |->
     [ci |-> TRUE,
      re |-> <<WB,
               Grp(<< <<Lit("company"), Star(Space),
                        Grp(<< <<Lit("number")>>, <<Lit("no"), Opt({"."})>>,
                               <<Lit("reg"), Grp(<< <<Lit("istration")>> >>, 0, 1)>> >>,
                            1, 1)>>,
                      <<Lit("registered"), Star(Space), NumberOrNo>> >>, 1, 1),
               Star(Space \cup {":"}), Set(Digits, 6, 8), WB>>],
   vatNumber |->
     [ci |-> TRUE,
      re |-> <<WB, Lit("VAT"), Star(Space),
               Grp(<< <<Lit("no"), Opt({"."})>>, <<Lit("number")>> >>, 0, 1),
               Star(Space \cup {":"}), Set(AZ, 0, 2), Star(Space), Set(Digits, 3, 3),
               Star(Space), Set(Digits, 4, 4), Star(Space), Set(Digits, 2, 2), WB>>],
   fullAddress |->
     <<[ci |-> TRUE,
        re |-> <<One(AZ), Plus(Alnum \cup Space),
                 Grp(<< <<Lit(","), Star(Space), One(AZ), Plus(Alnum \cup Space)>> >>,
                     2, MaxRepeat),
                 Opt({","}), Star(Space)>>
                 \o UKPostcode
                 \o <<Grp(<< <<Opt({","}), Star(Space), Lit("UK")>> >>, 0, 1),
                      Opt({"."})>>],
       [ci |-> TRUE,
        re |-> <<One(AZ), Plus(Letters \cup Space), Lit(","), Star(Space),
                 Grp(<< <<Lit("Co"), Opt({"."}), Star(Space)>> >>, 0, 1),
                 One(AZ), Plus(Letters), Lit(","), Star(Space)>>
                 \o Eircode],
       [ci |-> TRUE,
        re |-> <<Lit("Unit"), Plus(Space), Plus(Digits), Opt(Letters), Lit(","),
                 Star(Space), One(AZ), Plus(Alnum \cup Space \cup {","}),
                 Words(<<"Estate", "Park", "Industrial", "Business", "Centre", "Center">>),
                 Star(Alnum \cup Space \cup {","})>>],
       [ci |-> TRUE,
        re |-> <<Lit("A:"), Star(Space), One(AZ),
                 Plus(Alnum \cup Space \cup {",", ".", "-"}),
                 Grp(<<UKPostcode, Eircode>>, 1, 1)>>]>>,
   postcode |-> [ci |-> TRUE, re |-> <<WB>> \o UKPostcode \o <<WB>>],
   eircode |-> [ci |-> TRUE, re |-> <<WB>> \o Eircode \o <<WB>>],
   address |->
     <<[ci |-> TRUE,
        re |-> <<WB, Plus(Digits), Opt(Letters), Plus(Space), One(AZ), Plus(az),
                 Grp(<< <<Plus(Space), One(AZ), Plus(az)>> >>, 0, MaxRepeat),
                 Plus(Space), Words(StreetWords), WB>>]>>]

----------------------------------------------------------------------------
(* The stages of redact.js *)

\* the callbacks handed to String.prototype.replace, by name: what the
\* callback returns for match m of s
Callback(cb, s, m) ==
  LET match == MatchText(s, m)
      g1 == GroupText(s, m, 1)
      g2 == GroupText(s, m, 2)
      common(name) == toLowerCase(name) \in COMMON_WORDS
      redacted(name) == includes(name, "[REDACTED")
      after == SubSeq(s, m.end, Min(Len(s), m.end + 49))
      isLikelyName ==
        \/ Match(<<Star(Space),
                   Words(<<"Head", "Manager", "Director", "Executive", "Officer",
                           "Coordinator", "Specialist", "Assistant", "Lead", "Senior",
                           "Junior">>)>>, after, 1, NoCaps, TRUE).ok
        \/ Match(<<Star(Space), One(AZ), Plus(az), Plus(Space), Lit("of"), Plus(Space),
                   One(AZ)>>, after, 1, NoCaps, TRUE).ok
        \/ Match(<<Star(Space), One(AZ), Plus(az), Lit("@")>>, after, 1, NoCaps, TRUE).ok
        \/ Match(<<Star(Space), Opt({"+"}), One(Digits)>>, after, 1, NoCaps, TRUE).ok
  IN CASE cb.fn = "applyPattern" ->
            IF cb.type = "email" /\ toLowerCase(match) = toLowerCase(DATA_SUBJECT.email)
              THEN match
            ELSE IF cb.type = "url" /\ includes(toLowerCase(match), "freightlink")
              THEN match
            ELSE IF redacted(match) THEN match
            ELSE cb.replacement
       [] cb.fn = "ai" -> cb.replacement
       [] cb.fn = "greeting" ->
            IF isDataSubject(g2) \/ common(g2) THEN match
            ELSE g1 \o " [REDACTED NAME]"
       [] cb.fn = "signature" ->
            IF isDataSubject(g2) \/ common(g2) THEN match
            ELSE IF redacted(g2) THEN match
            ELSE g1 \o ", [REDACTED NAME]"
       [] cb.fn = "parentheses" ->
            IF isDataSubject(g1) \/ common(g1) THEN match
            ELSE "([REDACTED NAME])"
       [] cb.fn = "titled" ->
            IF isDataSubject(g2) THEN match
            ELSE g1 \o " [REDACTED NAME]"
       [] cb.fn = "labeled" ->
            IF isDataSubject(g2) THEN match
            ELSE IF redacted(g2) THEN match
            ELSE g1 \o ": [REDACTED NAME]"
       [] cb.fn = "standalone" ->
            IF isDataSubject(g1) THEN match
            ELSE IF common(g1) THEN match
            ELSE IF redacted(g1) THEN match
            ELSE IF test(<<One({".", "!", "?"}), Star(Space), EOS>>, match, FALSE)
              THEN match
            ELSE IF test(<<WB,
                           Words(<<"Ltd", "Limited", "Inc", "Incorporated", "Corp",
                                   "Corporation", "LLC", "LLP", "PLC", "Co">>),
                           WB>>, g1, TRUE)
              THEN match
            ELSE replaceFirst(match, g1, "[REDACTED NAME]")
       [] OTHER ->
            IF isDataSubject(g1) THEN match
            ELSE IF common(g1) THEN match
            ELSE IF redacted(g1) THEN match
            ELSE IF isLikelyName THEN replaceFirst(match, g1, "[REDACTED NAME]")
            ELSE match

\* s with the matches ms[k..] replaced by what the callback returns
RECURSIVE Build(_, _, _, _, _)
Build(s, pos, ms, k, cb) ==
  IF k > Len(ms)
    THEN SubSeq(s, pos, Len(s))
    ELSE SubSeq(s, pos, ms[k].start - 1) \o Callback(cb, s, ms[k])
           \o Build(s, ms[k].end, ms, k + 1, cb)

\* s.replace(/.../g, callback)
ReplaceAll(re, ci, cb, s) == Build(s, 1, FindAll(re, s, ci), 1, cb)

\* s.replace(/.../gi, by) for a string by without "$": s from pos on with
\* the matches ms[k..] replaced by it
RECURSIVE replaceMatches(_, _, _, _, _)
replaceMatches(s, pos, ms, k, by) ==
  IF k > Len(ms)
    THEN SubSeq(s, pos, Len(s))
    ELSE SubSeq(s, pos, ms[k].start - 1) \o by
           \o replaceMatches(s, ms[k].end, ms, k + 1, by)
replaceWith(re, ci, by, s) == replaceMatches(s, 1, FindAll(re, s, ci), 1, by)

\* the mutant of redactSender: only the name decides who the sender is
redactSenderByName(sender) ==
  IF isDataSubject(sender.name)
    THEN sender
    ELSE [name |-> IF Len(trim(sender.name)) > 0 THEN "[REDACTED]" ELSE sender.name,
          email |-> IF Len(trim(sender.email)) > 0 THEN "[REDACTED]" ELSE sender.email]

\* redactSender(sender)
redactSender(sender) ==
  IF isDataSubject(sender.name) \/ isDataSubject(sender.email)
    THEN sender
    ELSE [name |-> IF Len(trim(sender.name)) > 0 THEN "[REDACTED]" ELSE sender.name,
          email |-> IF Len(trim(sender.email)) > 0 THEN "[REDACTED]" ELSE sender.email]
\* redactSender(sender).redactions
senderRedactions(sender) ==
  IF isDataSubject(sender.name) \/ isDataSubject(sender.email)
    THEN <<>>
    ELSE (IF Len(trim(sender.name)) > 0
            THEN <<[original |-> sender.name, type |-> "sender_name"]>> ELSE <<>>)
         \o (IF Len(trim(sender.email)) > 0
               THEN <<[original |-> sender.email, type |-> "sender_email"]>> ELSE <<>>)

\* str.split(/[;,]/): the position of the k-th separator of s (0 before the
\* first, Len(s) + 1 after the last), and the parts between the separators
separatorAt(s, k) ==
  LET seps == {i \in 1..Len(s) : CharAt(s, i) \in {";", ","}}
  IN IF k = 0 THEN 0
     ELSE IF k > Cardinality(seps) THEN Len(s) + 1
     ELSE CHOOSE i \in seps : Cardinality({j \in seps : j <= i}) = k
split(s) ==
  LET n == Cardinality({i \in 1..Len(s) : CharAt(s, i) \in {";", ","}})
  IN [k \in 1..(n + 1) |-> SubSeq(s, separatorAt(s, k - 1) + 1, separatorAt(s, k) - 1)]

\* parts.join("; ")
RECURSIVE join(_)
join(parts) ==
  IF Len(parts) = 0 THEN ""
  ELSE IF Len(parts) = 1 THEN parts[1]
  ELSE parts[1] \o "; " \o join(Tail(parts))

\* the parts of a recipient field: split, trimmed, the empty ones dropped
partsOf(str) ==
  LET raw == split(str)
      trimmed == [k \in 1..Len(raw) |-> trim(raw[k])]
  IN SelectSeq(trimmed, LAMBDA p : Len(p) > 0)

\* whether redactRecipients keeps the part as the data subject
keptAsDataSubject(part) == isDataSubject(part) \/ containsDataSubject(part)

\* the mutant of redactPart: a part that names the data subject stays as written
redactPartKeeps(part) == IF keptAsDataSubject(part) THEN part ELSE "[REDACTED]"

\* what redactRecipients puts for one part of a recipient field
redactPart(part) ==
  IF keptAsDataSubject(part)
    THEN IF includes(toLowerCase(part), "john gaskell") THEN "John Gaskell"
         ELSE IF includes(toLowerCase(part), "john@freightlink") THEN DATA_SUBJECT.email
         ELSE DATA_SUBJECT.name
    ELSE "[REDACTED]"

\* the mutant of dedupe: only the first [REDACTED] of the field is kept
dedupeAll(parts, acc) ==
  LET keep == {k \in 1..Len(parts) :
                 parts[k] # "[REDACTED]" \/ \A j \in 1..(k - 1) : parts[j] # "[REDACTED]"}
  IN acc \o [i \in 1..Cardinality(keep) |->
               parts[CHOOSE k \in keep : Cardinality({j \in keep : j <= k}) = i]]

\* the loop that drops a [REDACTED] that follows a [REDACTED]
RECURSIVE dedupe(_, _)
dedupe(parts, acc) ==
  IF Len(parts) = 0
    THEN acc
    ELSE IF /\ parts[1] = "[REDACTED]"
            /\ Len(acc) > 0
            /\ acc[Len(acc)] = "[REDACTED]"
      THEN dedupe(Tail(parts), acc)
      ELSE dedupe(Tail(parts), Append(acc, parts[1]))

\* redactRecipients, for one of the fields to, cc, bcc
redactField(str) ==
  IF Len(trim(str)) = 0
    THEN str
    ELSE LET ps == partsOf(str)
             redactedParts == [k \in 1..Len(ps) |-> redactPart(ps[k])]
         IN join(dedupe(redactedParts, <<>>))
\* the redaction items of one field: one for each third-party part
fieldRedactions(str, field) ==
  IF Len(trim(str)) = 0
    THEN <<>>
    ELSE LET third == SelectSeq(partsOf(str), LAMBDA p : ~keptAsDataSubject(p))
         IN [k \in 1..Len(third) |-> [original |-> third[k], type |-> field]]
\* redactRecipients(recipients).redactions
recipientRedactions(recipients) ==
  fieldRedactions(recipients.to, "recipient_to")
    \o fieldRedactions(recipients.cc, "recipient_cc")
    \o fieldRedactions(recipients.bcc, "recipient_bcc")
redactRecipients(recipients) ==
  [to |-> redactField(recipients.to),
   cc |-> redactField(recipients.cc),
   bcc |-> redactField(recipients.bcc)]

\* the calls of applyPattern in redactPatterns, in their order
\* the mutant of Step: a placeholder without brackets that ends in digits
StepBare(p, type, replacement) ==
  [re |-> p.re, ci |-> p.ci,
   cb |-> [fn |-> "applyPattern", type |-> type, replacement |-> "REDACTED 00000"]]
Step(p, type, replacement) ==
  [re |-> p.re, ci |-> p.ci,
   cb |-> [fn |-> "applyPattern", type |-> type, replacement |-> replacement]]
PatternSteps ==
  [k \in 1..Len(PATTERNS.fullAddress) |->
     Step(PATTERNS.fullAddress[k], "address", "[REDACTED ADDRESS]")]
  \o [k \in 1..Len(PATTERNS.address) |->
        Step(PATTERNS.address[k], "address", "[REDACTED ADDRESS]")]
  \o <<Step(PATTERNS.postcode, "postcode", "[REDACTED]"),
       Step(PATTERNS.eircode, "eircode", "[REDACTED]"),
       Step(PATTERNS.email, "email", "[REDACTED EMAIL]")>>
  \o [k \in 1..Len(PATTERNS.phone) |->
        Step(PATTERNS.phone[k], "phone", "[REDACTED PHONE]")]
  \o [k \in 1..Len(PATTERNS.reference) |->
        Step(PATTERNS.reference[k], "reference", "[REDACTED REF]")]
  \o [k \in 1..Len(PATTERNS.currency) |->
        Step(PATTERNS.currency[k], "currency", "[REDACTED AMOUNT]")]
  \o <<Step(PATTERNS.companyReg, "company_reg", "[REDACTED REG]"),
       Step(PATTERNS.vatNumber, "vat", "[REDACTED VAT]"),
       Step(PATTERNS.url, "url", "[REDACTED URL]")>>

\* the matches the callback replaced, and what redactions.push recorded for
\* them, in the order of the matches
Changed(s, ms, cb) ==
  {k \in 1..Len(ms) : Callback(cb, s, ms[k]) # MatchText(s, ms[k])}
PushedItems(s, ms, cb, changed) ==
  [j \in 1..Cardinality(changed) |->
     LET k == CHOOSE c \in changed : Cardinality({i \in changed : i < c}) = j - 1
     IN [original |-> MatchText(s, ms[k]), type |-> cb.type,
         replacement |-> cb.replacement]]
\* one step on s with the matches ms: the text after it, how many matches
\* applyPattern replaced, and the items pushed for them
Replaced(s, ms, cb) ==
  [result |-> Build(s, 1, ms, 1, cb),
   redactions |-> Cardinality(Changed(s, ms, cb)),
   items |-> PushedItems(s, ms, cb, Changed(s, ms, cb))]
StepResult(step, s) == Replaced(s, FindAll(step.re, s, step.ci), step.cb)

\* the text, the count and the items so far, after one more step
Merged(r, step) ==
  [result |-> step.result, redactions |-> r.redactions + step.redactions,
   items |-> r.items \o step.items]

\* the steps lo..hi applied one after the other to r (none of their
\* expressions matches in the empty string)
RECURSIVE Chunk(_, _, _, _)
Chunk(r, steps, lo, hi) ==
  IF lo > hi \/ lo > Len(steps) \/ Len(r.result) = 0
    THEN r
    ELSE Chunk(Merged(r, StepResult(steps[lo], r.result)), steps, lo + 1, hi)

\* all the steps applied one after the other; they are taken four at a
\* time, each piece worked out before the next one is begun
RECURSIVE Chunks(_, _, _)
Chunks(r, steps, lo) ==
  IF lo > Len(steps) \/ Len(r.result) = 0
    THEN r
    ELSE Chunks(Chunk(r, steps, lo, lo + 3), steps, lo + 4)
RunSteps(s, steps) ==
  Chunks([result |-> s, redactions |-> 0, items |-> <<>>], steps, 1)

\* the steps applied one after the other
ApplySteps(s, steps, k) ==
  IF k > Len(steps) \/ Len(s) = 0 THEN s ELSE RunSteps(s, steps).result

\* redactPatterns(text): result, the length of redactions, and redactions
applyPatterns(str) ==
  IF Len(str) = 0
    THEN [result |-> str, redactions |-> 0, items |-> <<>>]
    ELSE RunSteps(str, PatternSteps)
\* redactPatterns(text).result
redactPatterns(str) == applyPatterns(str).result

\* the name shapes of paranoidPass: [A-Z][a-z]{2,}, [A-Z][a-z]+, and
\* (?:\s+ ...)? after them
Name3 == <<One(AZ), Set(az, 2, MaxRepeat)>>
Name2 == <<One(AZ), Plus(az)>>
OptMore(name) == Grp(<< <<Plus(Space)>> \o name >>, 0, 1)
ParanoidSteps ==
  <<[re |-> <<WB>> \o Cap(1, <<Words(<<"Hi", "Hello", "Dear", "Hey", "Morning",
                                        "Afternoon">>)>>)
              \o <<Plus(Space)>> \o Cap(2, Name3) \o <<WB>>,
     ci |-> TRUE, cb |-> [fn |-> "greeting", type |-> "greeting_name",
                          replacement |-> "[REDACTED NAME]"]],
    [re |-> <<WB>> \o Cap(1, <<Words(<<"Regards", "Thanks", "Cheers", "Best",
                                        "Sincerely">>)>>)
              \o <<Plus(Space \cup {","})>> \o Cap(2, Name3 \o <<OptMore(Name2)>>)
              \o <<WB>>,
     ci |-> TRUE, cb |-> [fn |-> "signature", type |-> "signature_name",
                          replacement |-> "[REDACTED NAME]"]],
    [re |-> <<Lit("(")>> \o Cap(1, Name2 \o <<OptMore(Name2)>>) \o <<Lit(")")>>,
     ci |-> FALSE, cb |-> [fn |-> "parentheses", type |-> "parentheses_name",
                           replacement |-> "[REDACTED NAME]"]],
    [re |-> <<WB>>
              \o Cap(1, <<Grp(<< <<Lit("Mr"), Opt({"."})>>, <<Lit("Mrs"), Opt({"."})>>,
                                 <<Lit("Ms"), Opt({"."})>>, <<Lit("Miss")>>,
                                 <<Lit("Dr"), Opt({"."})>>, <<Lit("Prof"), Opt({"."})>> >>,
                              1, 1)>>)
              \o <<Plus(Space)>> \o Cap(2, Name2) \o <<WB>>,
     ci |-> TRUE, cb |-> [fn |-> "titled", type |-> "titled_name",
                          replacement |-> "[REDACTED NAME]"]],
    [re |-> <<WB>> \o Cap(1, <<Words(<<"From", "To", "Cc", "Sent by", "Contact",
                                        "Name">>)>>)
              \o <<Plus(Space \cup {":"})>>
              \o Cap(2, Name2 \o <<Plus(Space)>> \o Name2) \o <<WB>>,
     ci |-> TRUE, cb |-> [fn |-> "labeled", type |-> "labeled_name",
                          replacement |-> "[REDACTED NAME]"]],
    [re |-> <<Grp(<< <<BOL>>, <<Lit("\n")>> >>, 1, 1), Star(Space)>>
              \o Cap(1, Name3 \o <<OptMore(Name3)>>)
              \o <<Star(Space), Grp(<< <<Lit("\n")>>, <<EOL>> >>, 1, 1)>>,
     ci |-> FALSE, cb |-> [fn |-> "standalone", type |-> "standalone_name",
                           replacement |-> "[REDACTED NAME]"]],
    [re |-> <<Grp(<< <<BOL>>, <<Lit("\n")>> >>, 1, 1)>>
              \o Cap(1, Name3 \o <<OptMore(Name3)>>)
              \o <<Grp(<< <<Lit("\n")>>, <<EOL>> >>, 1, 1)>>,
     ci |-> FALSE, cb |-> [fn |-> "lineStart", type |-> "signature_name",
                           replacement |-> "[REDACTED NAME]"]]>>

\* paranoidPass(text).result
paranoidPass(str) == IF Len(str) = 0 THEN str ELSE ApplySteps(str, ParanoidSteps, 1)

\* [...items].sort((a, b) => b.text.length - a.text.length): stable, the
\* longest text first
RECURSIVE insertByLength(_, _)
insertByLength(sorted, item) ==
  IF Len(sorted) = 0
    THEN <<item>>
    ELSE IF Len(Head(sorted).text) >= Len(item.text)
      THEN <<Head(sorted)>> \o insertByLength(Tail(sorted), item)
      ELSE <<item>> \o sorted
RECURSIVE sortByLength(_, _)
sortByLength(items, acc) ==
  IF Len(items) = 0 THEN acc
  ELSE sortByLength(Tail(items), insertByLength(acc, Head(items)))

\* the loop of applyAIRedactions over the sorted items
RECURSIVE applyItems(_, _)
applyItems(s, items) ==
  IF Len(items) = 0
    THEN s
    ELSE
      LET original == Head(items).text
          replacement == IF Head(items).type = "company" THEN "[REDACTED COMPANY]"
                                                         ELSE "[REDACTED NAME]"
          regex == <<WB, Lit(original), WB>>
          skip == \/ Len(original) < 2
                  \/ isDataSubject(original)
                  \/ toLowerCase(original) \in COMMON_WORDS
                  \/ includes(original, "[REDACTED")
      IN IF ~skip /\ test(regex, s, TRUE)
           THEN applyItems(ReplaceAll(regex, TRUE,
                                      [fn |-> "ai", type |-> Head(items).type,
                                       replacement |-> replacement], s),
                           Tail(items))
           ELSE applyItems(s, Tail(items))

\* applyAIRedactions(text, items).result
applyAIRedactions(str, items) ==
  IF Len(str) = 0 \/ Len(items) = 0
    THEN str
    ELSE applyItems(str, sortByLength(items, <<>>))

\* the same loop, for what it pushes to redactions: one item for every item
\* of the answer whose expression was found in the text as it then was
RECURSIVE itemRedactions(_, _)
itemRedactions(s, items) ==
  IF Len(items) = 0
    THEN <<>>
    ELSE
      LET original == Head(items).text
          replacement == IF Head(items).type = "company" THEN "[REDACTED COMPANY]"
                                                         ELSE "[REDACTED NAME]"
          regex == <<WB, Lit(original), WB>>
          skip == \/ Len(original) < 2
                  \/ isDataSubject(original)
                  \/ toLowerCase(original) \in COMMON_WORDS
                  \/ includes(original, "[REDACTED")
      IN IF ~skip /\ test(regex, s, TRUE)
           THEN <<[original |-> original, type |-> Head(items).type,
                   replacement |-> replacement]>>
                  \o itemRedactions(applyItems(s, <<Head(items)>>), Tail(items))
           ELSE itemRedactions(s, Tail(items))
\* applyAIRedactions(text, items).redactions
aiRedactions(str, items) ==
  IF Len(str) = 0 \/ Len(items) = 0
    THEN <<>>
    ELSE itemRedactions(str, sortByLength(items, <<>>))
\* processBatch: redactions.map((r) => ({ ...r, field: "body", source: "ai" }))
aiTagged(redactions, field) ==
  [k \in 1..Len(redactions) |-> redactions[k] @@ [field |-> field, source |-> "ai"]]

\* isDataSubjectRelated(text) of redact-ai.js: holding a variation or the
\* email of the data subject
isDataSubjectRelated(str) ==
  IF Len(str) = 0
    THEN FALSE
    ELSE LET lower == trim(toLowerCase(str))
             variations == <<"john gaskell", "john", "gaskell", "j. gaskell", "j gaskell">>
         IN \/ \E k \in 1..Len(variations) : includes(lower, toLowerCase(variations[k]))
            \/ lower = toLowerCase(DATA_SUBJECT.email)
            \/ includes(lower, toLowerCase(DATA_SUBJECT.email))

\* original.split(/\s+/): whether there is more than one part, and parts[0]
hasParts(str) == \E i \in 1..Len(str) : CharAt(str, i) \in Space
firstPart(str) ==
  LET ws == {i \in 1..Len(str) : CharAt(str, i) \in Space}
  IN IF ws = {} THEN str
     ELSE SubSeq(str, 1, (CHOOSE i \in ws : \A j \in ws : i <= j) - 1)

\* Map.prototype.set on the entries of itemsToRedact, in insertion order: a
\* key that is there keeps its place and takes the new value
mapSet(entries, item) ==
  IF \E k \in 1..Len(entries) : entries[k].text = item.text
    THEN [k \in 1..Len(entries) |->
            IF entries[k].text = item.text THEN item ELSE entries[k]]
    ELSE Append(entries, item)

\* redaction.field || "body"
fieldOf(redaction) == IF "field" \in DOMAIN redaction THEN redaction.field ELSE "body"

\* applyStageRedactions, the first loop: the items of this stage, with the
\* first name of every name of several words (text is the item's original)
RECURSIVE itemsToRedact(_, _, _)
itemsToRedact(redactions, stageId, acc) ==
  IF Len(redactions) = 0
    THEN acc
    ELSE
      LET redaction == Head(redactions)
          original == redaction.text
          type == redaction.type
          firstName == firstPart(original)
          field == fieldOf(redaction)
          own == mapSet(acc, [text |-> original, type |-> type, field |-> field])
          named == IF hasParts(original) /\ Len(firstName) > 2
                      /\ ~isDataSubjectRelated(firstName)
                     THEN mapSet(own, [text |-> firstName, type |-> type, field |-> field])
                     ELSE own
      IN IF Len(original) < 2 \/ isDataSubjectRelated(original)
           THEN itemsToRedact(Tail(redactions), stageId, acc)
         ELSE IF stageId = "names" /\ type = "name"
           THEN itemsToRedact(Tail(redactions), stageId, named)
         ELSE IF \/ stageId = "companies" /\ type = "company"
                 \/ stageId = "contact" /\ type \in {"email", "phone", "address"}
           THEN itemsToRedact(Tail(redactions), stageId, own)
         ELSE itemsToRedact(Tail(redactions), stageId, acc)

\* the replacement applyStageRedactions chooses for a type
stageReplacement(type) ==
  CASE type = "name" -> "[REDACTED NAME]"
    [] type = "company" -> "[REDACTED COMPANY]"
    [] type = "email" -> "[REDACTED EMAIL]"
    [] type = "phone" -> "[REDACTED PHONE]"
    [] type = "address" -> "[REDACTED ADDRESS]"
    [] OTHER -> "[REDACTED]"

\* applyStageRedactions, the second loop on one field (body or subject):
\* new RegExp(escapeRegex(original), "gi"), tested and replaced
RECURSIVE applyStageItems(_, _)
applyStageItems(s, sortedItems) ==
  IF Len(sortedItems) = 0
    THEN s
    ELSE
      LET regex == <<Lit(Head(sortedItems).text)>>
      IN IF Len(s) > 0 /\ test(regex, s, TRUE)
           THEN applyStageItems(ReplaceAll(regex, TRUE,
                                           [fn |-> "ai", type |-> Head(sortedItems).type,
                                            replacement |-> stageReplacement(Head(sortedItems).type)],
                                           s),
                                Tail(sortedItems))
           ELSE applyStageItems(s, Tail(sortedItems))

\* RegExp.prototype.test of a g-flag expression whose lastIndex is last:
\* the search starts at lastIndex; a match leaves lastIndex at its end, no
\* match leaves it at 0
testFrom(items, s, ci, last) ==
  IF last > Len(s) \/ \A j \in (last + 1)..(Len(s) + 1) : ~Match(items, s, j, NoCaps, ci).ok
    THEN [ok |-> FALSE, lastIndex |-> 0]
    ELSE [ok |-> TRUE,
          lastIndex |->
            Match(items, s,
                  CHOOSE j \in (last + 1)..(Len(s) + 1) :
                    /\ Match(items, s, j, NoCaps, ci).ok
                    /\ \A k \in (last + 1)..(j - 1) : ~Match(items, s, k, NoCaps, ci).ok,
                  NoCaps, ci).end - 1]

\* fieldValue.split(/[;,\n]/).map((p) => p.trim()).filter((p) => p)
stageSeparators == {";", ",", "\n"}
stageSeparatorAt(s, k) ==
  LET seps == {i \in 1..Len(s) : CharAt(s, i) \in stageSeparators}
  IN IF k = 0 THEN 0
     ELSE IF k > Cardinality(seps) THEN Len(s) + 1
     ELSE CHOOSE i \in seps : Cardinality({j \in seps : j <= i}) = k
stagePartsOf(str) ==
  LET n == Cardinality({i \in 1..Len(str) : CharAt(str, i) \in stageSeparators})
      trimmed == [k \in 1..(n + 1) |->
                    trim(SubSeq(str, stageSeparatorAt(str, k - 1) + 1,
                                stageSeparatorAt(str, k) - 1))]
  IN SelectSeq(trimmed, LAMBDA p : Len(p) > 0)

\* the part after part.replace(regex, replacement)
stageRedactedPart(part, item) ==
  IF trim(replaceWith(<<Lit(item.text)>>, TRUE, stageReplacement(item.type), part))
       = stageReplacement(item.type)
    THEN stageReplacement(item.type)
    ELSE replaceWith(<<Lit(item.text)>>, TRUE, stageReplacement(item.type), part)

\* the loop over the parts of a recipient field: the parts it pushes and
\* the lastIndex it leaves.  A part of the data subject is kept without a
\* test; regex.test(part) goes on from the lastIndex of the test before it;
\* part.replace(regex, ...) leaves lastIndex at 0
RECURSIVE stageRedactParts(_, _, _, _)
stageRedactParts(parts, item, last, acc) ==
  IF Len(parts) = 0
    THEN [parts |-> acc, lastIndex |-> last]
    ELSE IF isDataSubjectRelated(Head(parts))
      THEN stageRedactParts(Tail(parts), item, last, Append(acc, Head(parts)))
    ELSE IF testFrom(<<Lit(item.text)>>, Head(parts), TRUE, last).ok
      THEN stageRedactParts(Tail(parts), item, 0,
                            Append(acc, stageRedactedPart(Head(parts), item)))
      ELSE stageRedactParts(Tail(parts), item, 0, Append(acc, Head(parts)))

\* "Remove duplicates while preserving data subject": the first part of
\* the data subject is kept, the later ones are dropped
RECURSIVE uniqueParts(_, _, _)
uniqueParts(parts, hasDataSubject, acc) ==
  IF Len(parts) = 0
    THEN acc
    ELSE IF isDataSubjectRelated(Head(parts))
      THEN uniqueParts(Tail(parts), TRUE,
                       IF hasDataSubject THEN acc ELSE Append(acc, Head(parts)))
      ELSE uniqueParts(Tail(parts), hasDataSubject, Append(acc, Head(parts)))

\* one turn of the loop over ["to", "cc", "bcc"] for one item: the value of
\* the field afterwards, the lastIndex of the item's regex afterwards, and
\* whether a redaction was pushed
stageFieldRedacted(redacted, item) ==
  [value |-> join(uniqueParts(redacted.parts, FALSE, <<>>)),
   lastIndex |-> redacted.lastIndex,
   recorded |-> TRUE]
stageField(value, item, recipientField, last) ==
  IF ~((item.field = recipientField \/ item.field = "to" \/ item.field = "cc")
         /\ Len(value) > 0)
    THEN [value |-> value, lastIndex |-> last, recorded |-> FALSE]
    ELSE IF ~testFrom(<<Lit(item.text)>>, value, TRUE, last).ok
      THEN [value |-> value, lastIndex |-> 0, recorded |-> FALSE]
      ELSE stageFieldRedacted(
             stageRedactParts(stagePartsOf(value), item,
                              testFrom(<<Lit(item.text)>>, value, TRUE, last).lastIndex,
                              <<>>),
             item)

\* appliedRedactions.push for a recipient field
stagePushed(item, recipientField, done, stageId) ==
  IF done.recorded
    THEN <<[original |-> item.text, type |-> item.type,
            field |-> "recipients." \o recipientField,
            replacement |-> stageReplacement(item.type), stage |-> stageId]>>
    ELSE <<>>

\* the three turns for one item, each starting with the lastIndex the turn
\* before left; the tests and replacements on body and subject before them
\* leave it at 0
stageItemDone(item, stageId, to, cc, bcc) ==
  [recipients |-> [to |-> to.value, cc |-> cc.value, bcc |-> bcc.value],
   applied |-> stagePushed(item, "to", to, stageId)
                 \o stagePushed(item, "cc", cc, stageId)
                 \o stagePushed(item, "bcc", bcc, stageId)]
stageItemBcc(recipients, item, stageId, to, cc) ==
  stageItemDone(item, stageId, to, cc,
                stageField(recipients.bcc, item, "bcc", cc.lastIndex))
stageItemCc(recipients, item, stageId, to) ==
  stageItemBcc(recipients, item, stageId, to,
               stageField(recipients.cc, item, "cc", to.lastIndex))
stageItemRecipients(recipients, item, stageId) ==
  stageItemCc(recipients, item, stageId, stageField(recipients.to, item, "to", 0))

\* the recipient fields and the redactions pushed for them after the loop
\* over sortedItems
RECURSIVE stageRecipients(_, _, _, _)
stageRecipientsNext(done, sortedItems, stageId, applied) ==
  stageRecipients(done.recipients, sortedItems, stageId, applied \o done.applied)
stageRecipients(recipients, sortedItems, stageId, applied) ==
  IF Len(sortedItems) = 0
    THEN [recipients |-> recipients, applied |-> applied]
    ELSE stageRecipientsNext(stageItemRecipients(recipients, Head(sortedItems), stageId),
                             Tail(sortedItems), stageId, applied)

\* applyStageRedactions(message, redactionInfo, stageId).message, for items
\* whose field is the body (the default) or a recipient field; the sender
\* fields are touched only by items whose field is from or sender
applyStageRedactions(message, redactions, stageId) ==
  [message EXCEPT
     !.body = applyStageItems(message.body,
                              sortByLength(itemsToRedact(redactions, stageId, <<>>), <<>>)),
     !.subject = applyStageItems(message.subject,
                                 sortByLength(itemsToRedact(redactions, stageId, <<>>), <<>>)),
     !.recipients = stageRecipients(message.recipients,
                                    sortByLength(itemsToRedact(redactions, stageId, <<>>), <<>>),
                                    stageId, <<>>).recipients]

\* applyStageRedactions(...).appliedRedactions, the items of the recipient
\* fields
appliedRecipientRedactions(message, redactions, stageId) ==
  stageRecipients(message.recipients,
                  sortByLength(itemsToRedact(redactions, stageId, <<>>), <<>>),
                  stageId, <<>>).applied

----------------------------------------------------------------------------
(* The text pipeline of v2 on one message (SpecText): the stages of        *)
(* processMessage, then the AI redactions of processBatch.  Stage 0,       *)
(* trimReplyThreads, returns a body without reply separators unchanged and *)
(* no body of the model has one, so the pipeline starts at redactSender.   *)

\* how many phrases a body of the model is made of, at most
MaxParts == 3

Phrases ==
  {"John Gaskell", "john@freightlink.co.uk", "Mike Smith",
   ", Quarry Bank, Preston, PR5 4JN", "Thanks for", "Hi", "Mr", "\n"}

\* two pieces of text put together: a space between them, except before a
\* comma and around a line break
Joined(p, t) ==
  IF Len(p) = 0 \/ Len(t) = 0 \/ Head(t) \in {",", "\n"} \/ CharAt(p, Len(p)) = "\n"
    THEN p \o t
    ELSE p \o " " \o t

RECURSIVE TextsOf(_)
TextsOf(n) ==
  IF n = 0 THEN {""} ELSE {Joined(p, t) : p \in Phrases, t \in TextsOf(n - 1)}
Bodies == UNION {TextsOf(n) : n \in 1..MaxParts}

Senders ==
  {[name |-> "Mike Smith", email |-> "mike@acme.com"],
   [name |-> "John Gaskell", email |-> "john@freightlink.co.uk"]}
ToFields ==
  {"John Gaskell",
   "Mike Smith <mike@acme.com>, John Gaskell <john@freightlink.co.uk>",
   "mike@acme.com; sarah@acme.com; john@freightlink.co.uk"}
Subjects ==
  {"Update",
   "Meeting with John Gaskell",
   "Delivery for John Gaskell, Quarry Bank, Preston, PR5 4JN"}
\* what the AI call may answer for the message
ItemChoices ==
  {<<>>,
   <<[text |-> "Mike", type |-> "name"], [text |-> "Mike Smith", type |-> "name"]>>,
   <<[text |-> "freightlink", type |-> "company"]>>,
   <<[text |-> "Mr John", type |-> "name"], [text |-> "John Gaskell", type |-> "name"]>>}

DefaultSender == [name |-> "Mike Smith", email |-> "mike@acme.com"]
MessageOf(sender, to, subject, body) ==
  [sender |-> sender, recipients |-> [to |-> to, cc |-> "", bcc |-> ""],
   subject |-> subject, body |-> body]
TextInputs ==
  {MessageOf(DefaultSender, "John Gaskell", "Update", b) : b \in Bodies}
    \cup {MessageOf(s, t, j, "Hi Mike") : s \in Senders, t \in ToFields, j \in Subjects}

InitText ==
  /\ variant = "v2"
  /\ cap = 0
  /\ RunIdle
  /\ call = CallIdle
  /\ \E m \in TextInputs, items \in ItemChoices :
       text = [pc |-> "sender", input |-> m, msg |-> m, items |-> items,
               allRedactions |-> <<>>]

\* processMessage, stage 1: redactSender; allRedactions holds the redaction
\* items of the structured fields and, later, those of the AI stage
StageSender ==
  /\ text.pc = "sender"
  /\ text' = [text EXCEPT !.pc = "recipients",
                          !.msg.sender = redactSender(text.msg.sender),
                          !.allRedactions = @ \o senderRedactions(text.msg.sender)]
  /\ UNCHANGED <<runVars, call>>

\* processMessage, stage 1: redactRecipients
StageRecipients ==
  /\ text.pc = "recipients"
  /\ text' = [text EXCEPT !.pc = "patternsBody",
                          !.msg.recipients = redactRecipients(text.msg.recipients),
                          !.allRedactions = @ \o recipientRedactions(text.msg.recipients)]
  /\ UNCHANGED <<runVars, call>>

\* processMessage, stage 2: redactPatterns on the body
StagePatternsBody ==
  /\ text.pc = "patternsBody"
  /\ text' = [text EXCEPT !.pc = "patternsSubject",
                          !.msg.body = redactPatterns(text.msg.body)]
  /\ UNCHANGED <<runVars, call>>

\* processMessage, stage 2: redactPatterns on the subject
StagePatternsSubject ==
  /\ text.pc = "patternsSubject"
  /\ text' = [text EXCEPT !.pc = "paranoid",
                          !.msg.subject = redactPatterns(text.msg.subject)]
  /\ UNCHANGED <<runVars, call>>

\* delete result.attachments: the one field gone, hasAttachments left
deleteAttachmentsOnly(m) ==
  IF "attachments" \in DOMAIN m
    THEN [f \in DOMAIN m \ {"attachments"} |-> m[f]]
    ELSE m
\* delete result.attachments; delete result.hasAttachments
deleteAttachments(m) ==
  IF {"attachments", "hasAttachments"} \cap DOMAIN m # {}
    THEN [f \in DOMAIN m \ {"attachments", "hasAttachments"} |-> m[f]]
    ELSE m

\* processMessage, stage 4: paranoidPass on the body, then the attachment
\* fields are deleted and the message is returned
StageParanoid ==
  /\ text.pc = "paranoid"
  /\ text' = [text EXCEPT !.pc = "aiBody",
                          !.msg = deleteAttachments(
                                    [text.msg EXCEPT !.body = paranoidPass(text.msg.body)])]
  /\ UNCHANGED <<runVars, call>>

\* processBatch: applyAIRedactions on the body; its redactions go to the
\* audit entry of the message
StageAIBody ==
  /\ text.pc = "aiBody"
  /\ text' = [text EXCEPT !.pc = "aiSubject",
                          !.msg.body = applyAIRedactions(text.msg.body, text.items),
                          !.allRedactions =
                             @ \o aiTagged(aiRedactions(text.msg.body, text.items), "body")]
  /\ UNCHANGED <<runVars, call>>

\* processBatch: applyAIRedactions on the subject; its redactions are dropped
StageAISubject ==
  /\ text.pc = "aiSubject"
  /\ text' = [text EXCEPT !.pc = "done",
                          !.msg.subject = applyAIRedactions(text.msg.subject, text.items)]
  /\ UNCHANGED <<runVars, call>>

NextText ==
  \/ StageSender
  \/ StageRecipients
  \/ StagePatternsBody
  \/ StagePatternsSubject
  \/ StageParanoid
  \/ StageAIBody
  \/ StageAISubject

SpecText == InitText /\ [][NextText]_vars

----------------------------------------------------------------------------
(* redactPatterns applied to its own result (SpecTwice) *)

\* pieces of text the patterns are written for, and what may stand between
\* two of them
PatternPieces ==
  {"07527 176522", "+447527176522", "$1,000.00", "250 pounds", "ref 12345",
   "AB1234-5", "Job No: 77", "mike@acme.com", "john@freightlink.co.uk",
   "www.acme.com/x", "freightlink.co.uk", "PR5 4JN", "A84 EC83",
   "12 High Street", "[REDACTED]", "John Gaskell", "x", "9"}
LongPieces ==
  {"VAT GB 123 4567 89", "company no 1234567",
   "Quarry Bank, Chorley Road, Preston, PR5 4JN, UK.",
   "Unit 1, GMP House, Ashbourne Industrial Estate", "A: Main Road, PR5 4JN"}
Glue == {"", " ", ", ", "/"}
\* full addresses that end in a postcode or an Eircode, alone and in a sentence
FullAddresses ==
  {"Unit 1, GMP House, Ashbourne Industrial Estate, A84 EC83",
   "Quarry Bank, Chorley Road, Preston, PR5 4JN",
   "Ashbourne, Co. Meath, A84 EC83",
   "12 High Street, Preston, PR5 4JN"}
AddressTexts == FullAddresses \cup {"Contact us at " \o a : a \in FullAddresses}
TwiceTexts ==
  PatternPieces \cup LongPieces
    \cup {a \o g \o b : a \in PatternPieces, g \in Glue, b \in PatternPieces}
    \cup {a \o g \o b : a \in LongPieces, g \in {"", " "}, b \in {"x", "9", "PR5 4JN"}}
    \cup {b \o g \o a : a \in LongPieces, g \in {"", " "}, b \in {"x", "9", "PR5 4JN"}}
    \cup TextsOf(1)
    \cup AddressTexts

InitTwice ==
  /\ variant = "v2"
  /\ cap = 0
  /\ RunIdle
  /\ call = CallIdle
  /\ \E t \in TwiceTexts :
       text = [pc |-> "first", input |-> t, result |-> t, redactions |-> 0,
               items |-> <<>>]

\* redactPatterns on the text
FirstRun ==
  /\ text.pc = "first"
  /\ LET run == applyPatterns(text.input)
     IN text' = [text EXCEPT !.pc = "second",
                             !.result = run.result,
                             !.redactions = run.redactions,
                             !.items = run.items]
  /\ UNCHANGED <<runVars, call>>

\* redactPatterns on what redactPatterns returned
SecondRun ==
  /\ text.pc = "second"
  /\ LET run == applyPatterns(text.result)
     IN text' = [text EXCEPT !.pc = "twice",
                             !.result = run.result,
                             !.redactions = run.redactions,
                             !.items = run.items]
  /\ UNCHANGED <<runVars, call>>

NextTwice == FirstRun \/ SecondRun

SpecTwice == InitTwice /\ [][NextTwice]_vars

----------------------------------------------------------------------------
(* The items of the AI answer (SpecItems): the pipeline of redact.js up to *)
(* applyAIRedactions, and one stage of applyStageRedactions of             *)
(* redact-ai.js, on texts that hold the items in and next to longer words. *)

ItemBodies ==
  {"Contact Acme Ltd. today",
   "Invoice from Mike Smith Ltd, ask Mike",
   "Annual review by Ann",
   "Mr John Gaskell called Kel Jones",
   "Write to john@freightlink.co.uk",
   "MIKE SMITH and mike",
   "Thanks for the update, Mike"}
ItemSubjects == {"Update", "Re: Ann at Acme Ltd.", "Hello Mike, your invoice"}
ItemAnswers ==
  {<<>>,
   <<[text |-> "Mike", type |-> "name"], [text |-> "Mike Smith", type |-> "name"]>>,
   <<[text |-> "Acme", type |-> "company"], [text |-> "Acme Ltd.", type |-> "company"]>>,
   <<[text |-> "Mike Smith", type |-> "name"], [text |-> "Mike Smith Ltd", type |-> "company"]>>,
   <<[text |-> "Ann", type |-> "name"]>>,
   <<[text |-> "Kel Jones", type |-> "name"]>>,
   <<[text |-> "Mr John", type |-> "name"], [text |-> "John Gaskell", type |-> "name"]>>,
   <<[text |-> "freightlink", type |-> "company"]>>,
   <<[text |-> "Thanks", type |-> "name"], [text |-> "Mike", type |-> "name"]>>}
StageIds == {REDACTION_STAGES[k] : k \in 1..Len(REDACTION_STAGES)}
AttachmentChoices == {<<>>, <<"invoice.pdf">>}

\* extractMessageData of parse.js: the fields of an extracted message
extractMessageData(m, attachments) ==
  m @@ [id |-> 1, sourceFile |-> "mail.pst", bodySource |-> "text",
        date |-> "2024-01-15T09:30:00.000Z", messageClass |-> "IPM.Note",
        conversationTopic |-> m.subject, attachments |-> attachments,
        hasAttachments |-> Len(attachments) > 0]

InitItems ==
  /\ variant \in {"v2", "ai"}
  /\ cap = 0
  /\ RunIdle
  /\ call = CallIdle
  /\ \E b \in ItemBodies, j \in ItemSubjects, items \in ItemAnswers, stageId \in StageIds,
        attachments \in AttachmentChoices :
       LET m == extractMessageData(MessageOf(DefaultSender, "John Gaskell", j, b),
                                   attachments)
       IN text = [pc |-> IF variant = "v2" THEN "sender" ELSE "stage",
                  input |-> m, msg |-> m, items |-> items, allRedactions |-> <<>>,
                  stage |-> IF variant = "v2" THEN "ai" ELSE stageId,
                  applied |-> <<>>]

\* processBatchSafe: applyStageRedactions of one stage on the message
StageRedactions ==
  /\ text.pc = "stage"
  /\ text' = [text EXCEPT !.pc = "done",
                          !.msg = applyStageRedactions(text.msg, text.items, text.stage),
                          !.applied = appliedRecipientRedactions(text.msg, text.items,
                                                                 text.stage)]
  /\ UNCHANGED <<runVars, call>>

NextItems ==
  \/ NextText
  \/ StageRedactions

SpecItems == InitItems /\ [][NextItems]_vars

----------------------------------------------------------------------------
(* The items of the AI answer that name a recipient field                   *)
(* (SpecStageFields): one stage of applyStageRedactions on messages whose   *)
(* recipient fields vary.                                                   *)

StageTo ==
  {"Mike Smith", "Mike Smith <mike@acme.com>; Ann Lee", "John Gaskell; Mike Smith",
   "Ann Lee; Mike Smith", "mike smith, Mike Smith",
   "John Gaskell <john@freightlink.co.uk>", ""}
StageCc == {"", "Mike Smith", "Ann Lee, John Gaskell"}
StageBcc == {"", "Mike Smith"}
StageFieldItems ==
  {<<>>}
    \cup {<<[text |-> "Mike Smith", type |-> "name", field |-> f]>> : f \in {"to", "cc", "bcc"}}
    \cup {<<[text |-> "Ann Lee", type |-> "name", field |-> f]>> : f \in {"to", "cc", "bcc"}}
    \cup {<<[text |-> "mike@acme.com", type |-> "email", field |-> f]>> :
            f \in {"to", "cc", "bcc"}}

InitStageFields ==
  /\ variant = "ai"
  /\ cap = 0
  /\ RunIdle
  /\ call = CallIdle
  /\ \E to \in StageTo, cc \in StageCc, bcc \in StageBcc, items \in StageFieldItems,
        stageId \in {"names", "contact"} :
       LET m == [extractMessageData(MessageOf(DefaultSender, to, "Update", "Hello"), <<>>)
                   EXCEPT !.recipients.cc = cc, !.recipients.bcc = bcc]
       IN text = [pc |-> "stage", input |-> m, msg |-> m, items |-> items,
                  allRedactions |-> <<>>, stage |-> stageId, applied |-> <<>>]

SpecStageFields == InitStageFields /\ [][StageRedactions]_vars

----------------------------------------------------------------------------
(* The structured fields (SpecFields): the same stages on messages whose  *)
(* sender and recipient fields vary and whose subject and body do not.     *)

\* how many entries a recipient field of the model holds, at most
MaxEntries == 3

RecipientEntries ==
  {"John Gaskell", "john@freightlink.co.uk", "J Gaskell <john@freightlink.co.uk>",
   "Mike Smith <mike@acme.com>", "sarah@acme.com", "Johnson", ""}
Separators == {"; ", ","}
RECURSIVE FieldsOf(_)
FieldsOf(n) ==
  IF n = 1 THEN RecipientEntries
  ELSE {f \o sep \o e : f \in FieldsOf(n - 1), sep \in Separators, e \in RecipientEntries}
RecipientFields == UNION {FieldsOf(n) : n \in 1..MaxEntries} \cup {" "}
CcFields == {"", "Mike Smith; Sarah Jones; John Gaskell"}
FieldSenders ==
  Senders \cup
  {[name |-> "", email |-> "mike@acme.com"],
   [name |-> "Mike Smith", email |-> " "],
   [name |-> "JOHN GASKELL ", email |-> "mike@acme.com"],
   [name |-> "Mike", email |-> "john@freightlink.co.uk"],
   [name |-> "gaskell", email |-> ""],
   [name |-> "John", email |-> ""],
   [name |-> "Johnson", email |-> "johnson@freightlink.co.uk"]}
FieldInputs ==
  {[sender |-> DefaultSender, recipients |-> [to |-> t, cc |-> c, bcc |-> ""],
    subject |-> "Update", body |-> "Hi"] : t \in RecipientFields, c \in CcFields}
    \cup {[sender |-> sd, recipients |-> [to |-> "John Gaskell", cc |-> "", bcc |-> "Johnson"],
           subject |-> "Update", body |-> "Hi"] : sd \in FieldSenders}

InitFields ==
  /\ variant = "v2"
  /\ cap = 0
  /\ RunIdle
  /\ call = CallIdle
  /\ \E m \in FieldInputs :
       text = [pc |-> "sender", input |-> m, msg |-> m, items |-> <<>>,
               allRedactions |-> <<>>]

SpecFields == InitFields /\ [][NextText]_vars

\* how often sub occurs in s
CountOf(sub, s) == Cardinality(OccurrencesOf(sub, s))
Canonical == {DATA_SUBJECT.name, DATA_SUBJECT.email}

\* C1: at every stage, each of subject and body holds the canonical name
\* and the canonical email of the data subject as often as the input did,
\* the sender fields that hold them are as they were, and a recipient field
\* that named the data subject still does.
DataSubjectUntouched ==
  text.pc # "off"
    => /\ \A c \in Canonical :
            /\ CountOf(c, text.msg.body) >= CountOf(c, text.input.body)
            /\ CountOf(c, text.msg.subject) >= CountOf(c, text.input.subject)
            /\ CountOf(c, text.msg.sender.name) >= CountOf(c, text.input.sender.name)
            /\ CountOf(c, text.msg.sender.email) >= CountOf(c, text.input.sender.email)
       /\ (\E c \in Canonical : includes(text.input.recipients.to, c))
            => (\E c \in Canonical : includes(text.msg.recipients.to, c))

----------------------------------------------------------------------------
(* The structured fields *)

RecipientFieldNames == {"to", "cc", "bcc"}
Placeholder == "[REDACTED]"
FieldsRedacted == text.pc \notin {"off", "sender", "recipients"}

DataSubjectAtMostOnce ==
  FieldsRedacted =>
    \A f \in RecipientFieldNames :
      LET after == partsOf(text.msg.recipients[f])
      IN Cardinality({k \in 1..Len(after) : after[k] \in Canonical}) <= 1

\* C16: a non-empty field has as many entries after redactRecipients as it
\* had non-empty entries before, less one for every third-party entry that
\* directly follows a third-party entry, and no placeholder follows a
\* placeholder; so placeholders on both sides of a data-subject entry stay.
EntryCountKept ==
  FieldsRedacted =>
    \A f \in RecipientFieldNames :
      LET before == partsOf(text.input.recipients[f])
          after == partsOf(text.msg.recipients[f])
          collapsed == {k \in 2..Len(before) : /\ ~keptAsDataSubject(before[k])
                                                /\ ~keptAsDataSubject(before[k - 1])}
      IN Len(trim(text.input.recipients[f])) > 0 =>
           /\ Len(after) = Len(before) - Cardinality(collapsed)
           /\ \A k \in 2..Len(after) : ~(after[k] = Placeholder /\ after[k - 1] = Placeholder)
\* C16 witness: two third parties in a row were collapsed into one
\* placeholder, and the placeholder after the data subject was kept
CollapsedOnlyWhenAdjacent ==
  /\ FieldsRedacted
  /\ text.input.recipients.to = "sarah@acme.com; John Gaskell; sarah@acme.com"
  /\ text.msg.recipients.to = "[REDACTED]; John Gaskell; [REDACTED]"
  /\ text.input.recipients.cc = "Mike Smith; Sarah Jones; John Gaskell"
  /\ text.msg.recipients.cc = "[REDACTED]; John Gaskell"

SenderRedacted == text.pc \notin {"off", "sender"}
SenderIsDataSubject ==
  isDataSubject(text.input.sender.name) \/ isDataSubject(text.input.sender.email)
\* the redaction items redactSender has emitted
SenderItems ==
  SelectSeq(text.allRedactions, LAMBDA r : r.type \in {"sender_name", "sender_email"})

----------------------------------------------------------------------------
(* redactPatterns *)

\* C18: redactPatterns applied to a result of redactPatterns returns it
\* unchanged, with no redaction: in every step of the second run the text
\* stays as it is.
PatternsIdempotent ==
  [][text.pc = "second" => (text'.result = text.result /\ text'.redactions = 0)]_vars
\* C18 witness: the first run put placeholders for an address, an email and
\* a telephone number, with text of the input left between them, and the
\* second run is over
SecondRunOverPlaceholders ==
  /\ text.pc = "twice"
  /\ text.redactions = 0
  /\ text.result # text.input
  /\ includes(text.result, "[REDACTED EMAIL]/[REDACTED PHONE]")

----------------------------------------------------------------------------
(* The items of the AI answer *)

\* whether the AI stage applies the item: "ai" is applyAIRedactions of
\* redact.js, the other stages are those of applyStageRedactions
ItemEligible(item, stage) ==
  IF stage = "ai"
    THEN /\ Len(item.text) >= 2
         /\ ~isDataSubject(item.text)
         /\ toLowerCase(item.text) \notin COMMON_WORDS
         /\ ~includes(item.text, "[REDACTED")
    ELSE /\ Len(item.text) >= 2
         /\ ~isDataSubjectRelated(item.text)
         /\ \/ stage = "names" /\ item.type = "name"
            \/ stage = "companies" /\ item.type = "company"
            \/ stage = "contact" /\ item.type \in {"email", "phone", "address"}
ItemPlaceholder(item, stage) ==
  IF stage = "ai"
    THEN IF item.type = "company" THEN "[REDACTED COMPANY]" ELSE "[REDACTED NAME]"
    ELSE stageReplacement(item.type)
\* what is left of the longer text when the shorter item was replaced inside it
Fragments(long, short, stage) ==
  {toLowerCase(SubSeq(long.text, 1, i - 1) \o ItemPlaceholder(short, stage)
                 \o SubSeq(long.text, i + Len(short.text), Len(long.text))) :
     i \in OccurrencesOf(toLowerCase(short.text), toLowerCase(long.text))}
\* the longer of two applied items, one inside the other, is gone from the
\* field as a whole, and no fragment of it stands next to a placeholder
OneSpan(before, after, items, stage) ==
  \A a, b \in 1..Len(items) :
    (/\ ItemEligible(items[a], stage)
     /\ ItemEligible(items[b], stage)
     /\ Len(items[a].text) > Len(items[b].text)
     /\ includes(toLowerCase(items[a].text), toLowerCase(items[b].text))
     /\ includes(toLowerCase(before), toLowerCase(items[a].text)))
      => /\ ~includes(toLowerCase(after), toLowerCase(items[a].text))
         /\ \A f \in Fragments(items[a], items[b], stage) :
              ~includes(toLowerCase(before), f) => ~includes(toLowerCase(after), f)

\* C19: in every step of the AI stage, on the body and on the subject, when
\* two applied items have one text inside the other, every occurrence of the
\* longer text is replaced as a whole and none is left as a fragment next to
\* the placeholder of the shorter item.
LongestFirstOneSpan ==
  [][/\ text.pc = "aiBody" => OneSpan(text.msg.body, text'.msg.body, text.items, "ai")
     /\ text.pc = "aiSubject" =>
          OneSpan(text.msg.subject, text'.msg.subject, text.items, "ai")
     /\ text.pc = "stage" =>
          /\ OneSpan(text.msg.body, text'.msg.body, text.items, text.stage)
          /\ OneSpan(text.msg.subject, text'.msg.subject, text.items, text.stage)]_vars

\* the placeholders of the applied items stand as whole words in the field:
\* no letter, digit or underscore directly before or after them; and the
\* name and the email of the data subject that were in the field still are
WholeWords(before, after, items, stage) ==
  /\ \A a \in 1..Len(items) :
       LET p == ItemPlaceholder(items[a], stage)
       IN (ItemEligible(items[a], stage) /\ ~includes(before, p)) =>
            \A i \in OccurrencesOf(p, after) :
              ~IsWordAt(after, i - 1) /\ ~IsWordAt(after, i + Len(p))
  /\ \A c \in Canonical : includes(before, c) => includes(after, c)

\* C20: in every step of the AI stage, on the body and on the subject, an
\* item replaces whole words only: no placeholder is put directly next to a
\* letter or a digit of a longer word, and none into the name or the email of
\* the data subject.
WholeMatchOnly ==
  [][/\ text.pc = "aiBody" => WholeWords(text.msg.body, text'.msg.body, text.items, "ai")
     /\ text.pc = "aiSubject" =>
          WholeWords(text.msg.subject, text'.msg.subject, text.items, "ai")
     /\ text.pc = "stage" =>
          /\ WholeWords(text.msg.body, text'.msg.body, text.items, text.stage)
          /\ WholeWords(text.msg.subject, text'.msg.subject, text.items, text.stage)]_vars

\* the four filters of the AI stage on one item
PassesFilters(item) ==
  /\ Len(item.text) >= 2
  /\ ~isDataSubject(item.text)
  /\ toLowerCase(item.text) \notin COMMON_WORDS
  /\ ~includes(item.text, "[REDACTED")
Passing(items) == SelectSeq(items, PassesFilters)

\* C21: in every step of the AI stage the field is what the same step makes
\* of it with the items that pass the four filters (length, data subject,
\* common words, already redacted) alone: an item that fails a filter leads
\* to no substitution and the other items are applied as they are without it.
OnlyFilteredItemsApplied ==
  [][/\ text.pc = "aiBody" =>
          text'.msg.body = applyAIRedactions(text.msg.body, Passing(text.items))
     /\ text.pc = "aiSubject" =>
          text'.msg.subject = applyAIRedactions(text.msg.subject, Passing(text.items))
     /\ text.pc = "stage" =>
          text'.msg = applyStageRedactions(text.msg, Passing(text.items), text.stage)]_vars

----------------------------------------------------------------------------
(* Addresses *)

\* C22: redactPatterns on a text that holds a full address ending in a
\* postcode or an Eircode records exactly one item of type address, whose
\* original holds the whole address with the code, and no item of type
\* postcode or eircode.
AddressAsOneItem ==
  \A a \in FullAddresses :
    (text.pc = "second" /\ text.input \in {a, "Contact us at " \o a}) =>
      /\ Cardinality({k \in 1..Len(text.items) : text.items[k].type = "address"}) = 1
      /\ \A k \in 1..Len(text.items) :
           /\ text.items[k].type = "address" => includes(text.items[k].original, a)
           /\ text.items[k].type \notin {"postcode", "eircode"}

----------------------------------------------------------------------------
(* The shape of the message *)

\* the fields whose values redaction may change
RedactedFields == {"sender", "recipients", "subject", "body"}
\* the sender and the recipients have the fields they had, and every field
\* that is still there and is not one of the four has the value it had
ValuesKept ==
  /\ text.msg.id = text.input.id
  /\ DOMAIN text.msg.sender = DOMAIN text.input.sender
  /\ DOMAIN text.msg.recipients = DOMAIN text.input.recipients
  /\ \A f \in (DOMAIN text.msg \cap DOMAIN text.input) \ RedactedFields :
       text.msg[f] = text.input[f]

\* C23 as stated: the message that comes out of the pipeline has the id and
\* exactly the fields of the input, and only sender, recipients, subject and
\* body may differ in value.
ShapeKept ==
  text.pc = "done" => (DOMAIN text.msg = DOMAIN text.input /\ ValuesKept)
\* C23 amended: the message that comes out has the id of the input and its
\* fields, less attachments and hasAttachments when redact.js processed it;
\* no field is added and only sender, recipients, subject and body may
\* differ in value.
ShapeKeptButAttachments ==
  text.pc = "done" =>
    /\ DOMAIN text.msg =
         DOMAIN text.input \ (IF variant = "v2" THEN {"attachments", "hasAttachments"} ELSE {})
    /\ ValuesKept
\* C23 witness: redact.js is through with a message that had an attachment:
\* the body was redacted, the two attachment fields are gone, the id is kept
AttachmentsDropped ==
  /\ text.pc = "done"
  /\ variant = "v2"
  /\ text.input.attachments = <<"invoice.pdf">>
  /\ DOMAIN text.input \ DOMAIN text.msg = {"attachments", "hasAttachments"}
  /\ text.msg.body # text.input.body
  /\ text.msg.id = text.input.id

----------------------------------------------------------------------------
(* The audit of the AI stage *)

\* the items of the audit entry of the message that the AI stage put there
\* for a field
AuditedAI(field) ==
  SelectSeq(text.allRedactions,
            LAMBDA r : "source" \in DOMAIN r /\ r.source = "ai" /\ r.field = field)

\* C24: when redact.js is through with a message, a body that the AI stage
\* changed has an item tagged "ai" for the body in the audit entry of the
\* message, and a subject that the AI stage changed has one for the subject.
AISubstitutionsAudited ==
  (text.pc = "done" /\ variant = "v2") =>
    /\ text.msg.body # paranoidPass(redactPatterns(text.input.body))
         => Len(AuditedAI("body")) > 0
    /\ text.msg.subject # redactPatterns(text.input.subject)
         => Len(AuditedAI("subject")) > 0

----------------------------------------------------------------------------
(* The order of the stages *)

\* C25: when processMessage of redact.js has returned and the AI has not yet
\* been called, the body and the subject are each what paranoidPass makes of
\* what redactPatterns made of the field of the input.
ParanoidOnBothFields ==
  (text.pc = "aiBody" /\ variant = "v2") =>
    /\ text.msg.body = paranoidPass(redactPatterns(text.input.body))
    /\ text.msg.subject = paranoidPass(redactPatterns(text.input.subject))

----------------------------------------------------------------------------
(* unredact-subject.js (SpecUnredact).  Objects live on a heap, a sequence *)
(* of records; a reference is an index into it and 0 is null, so that a    *)
(* write through a shared reference shows in the caller's message.         *)

PLACEHOLDER_NAME == <<Lit("[REDACTED"), Plus(Space), Lit("NAME]")>>
PLACEHOLDER_EMAIL == <<Lit("[REDACTED"), Plus(Space), Lit("EMAIL]")>>

\* the mutant of unredactText: the placeholders in capitals only
unredactTextCapitals(str) ==
  replaceWith(PLACEHOLDER_EMAIL, FALSE, DATA_SUBJECT.email,
              replaceWith(PLACEHOLDER_NAME, FALSE, DATA_SUBJECT.name, str))
unredactText(str) ==
  replaceWith(PLACEHOLDER_EMAIL, TRUE, DATA_SUBJECT.email,
              replaceWith(PLACEHOLDER_NAME, TRUE, DATA_SUBJECT.name, str))

\* ^ without the m flag: a match that starts at the first character
isPlaceholderOnly(value, kind) ==
  \/ trim(value) = "[REDACTED]"
  \/ kind = "name" /\ Match(PLACEHOLDER_NAME \o <<EOS>>, trim(value), 1, NoCaps, TRUE).ok
  \/ kind = "email" /\ Match(PLACEHOLDER_EMAIL \o <<EOS>>, trim(value), 1, NoCaps, TRUE).ok

\* { ...object }: a new object with the fields of the old one
spread(heap, ref) == Append(heap, heap[ref])

\* the steps of unredactMessage on the copy out
unredactSubjectBody(heap, out) ==
  [heap EXCEPT ![out].subject = unredactText(@), ![out].body = unredactText(@)]
unredactSenderCopy(heap, out) ==
  [heap EXCEPT
     ![out].sender = Len(heap),
     ![Len(heap)].name = IF isPlaceholderOnly(@, "name")
                           THEN DATA_SUBJECT.name ELSE unredactText(@),
     ![Len(heap)].email = IF isPlaceholderOnly(@, "email")
                            THEN DATA_SUBJECT.email ELSE unredactText(@)]
unredactSender(heap, out) ==
  IF heap[out].sender = 0 THEN heap
  ELSE unredactSenderCopy(spread(heap, heap[out].sender), out)
unredactRecipientsCopy(heap, out) ==
  [heap EXCEPT
     ![out].recipients = Len(heap),
     ![Len(heap)].to = unredactText(@),
     ![Len(heap)].cc = unredactText(@),
     ![Len(heap)].bcc = unredactText(@)]
unredactRecipients(heap, out) ==
  IF heap[out].recipients = 0 THEN heap
  ELSE unredactRecipientsCopy(spread(heap, heap[out].recipients), out)

\* unredactMessage(msg): the heap when it returns, and what it returns
unredactMessage(heap, msg) ==
  [heap |-> unredactRecipients(
              unredactSender(
                unredactSubjectBody(spread(heap, msg), Len(heap) + 1),
                Len(heap) + 1),
              Len(heap) + 1),
   out |-> Len(heap) + 1]

\* what a message object holds: its own fields and those of the objects
\* it refers to
Null == [null |-> TRUE]
Deref(heap, ref) ==
  [id |-> heap[ref].id,
   subject |-> heap[ref].subject,
   body |-> heap[ref].body,
   sender |-> IF heap[ref].sender = 0 THEN Null ELSE heap[heap[ref].sender],
   recipients |-> IF heap[ref].recipients = 0 THEN Null
                  ELSE heap[heap[ref].recipients]]

\* the fields of the redacted messages unredact() is given
UnredactNames ==
  {"[REDACTED]", " [REDACTED] ", "[redacted name]", "Mr [REDACTED]", "John Gaskell",
   "[REDACTED NAME] via [REDACTED COMPANY]"}
UnredactEmails ==
  {"[REDACTED]", "[REDACTED EMAIL]", "[Redacted Email]", "john@freightlink.co.uk",
   "[REDACTED NAME]"}
UnredactSubjects ==
  {"Update for [REDACTED NAME]", "Call [REDACTED PHONE]", "[REDACTED]"}
UnredactBodies ==
  {"Dear [Redacted Name], write to [REDACTED  EMAIL] or [REDACTED]",
   "[REDACTED NAME][REDACTED EMAIL] [REDACTED COMPANY]",
   "No placeholders",
   "[REDACTED [REDACTED NAME]NAME]"}
UnredactTo == {"[REDACTED NAME] <[REDACTED EMAIL]>; [REDACTED]", "[REDACTED]", ""}
UnredactCc == {"", "[redacted email]"}

\* the heaps that hold one message: the message at 1, its sender and its
\* recipients, where it has them, after it
UnredactHeaps ==
  {<<[id |-> 1, subject |-> su, body |-> bo, sender |-> 0, recipients |-> 0]>> :
     su \in UnredactSubjects, bo \in UnredactBodies}
  \cup
  {<<[id |-> 1, subject |-> su, body |-> bo, sender |-> 2, recipients |-> 0],
     [name |-> na, email |-> em]>> :
     su \in UnredactSubjects, bo \in UnredactBodies,
     na \in UnredactNames, em \in UnredactEmails}
  \cup
  {<<[id |-> 1, subject |-> su, body |-> bo, sender |-> 0, recipients |-> 2],
     [to |-> to, cc |-> cc, bcc |-> ""]>> :
     su \in UnredactSubjects, bo \in UnredactBodies,
     to \in UnredactTo, cc \in UnredactCc}
  \cup
  {<<[id |-> 1, subject |-> su, body |-> bo, sender |-> 2, recipients |-> 3],
     [name |-> na, email |-> em], [to |-> to, cc |-> cc, bcc |-> ""]>> :
     su \in {"Update for [REDACTED NAME]"}, bo \in UnredactBodies,
     na \in UnredactNames, em \in UnredactEmails,
     to \in UnredactTo, cc \in UnredactCc}

InitUnredact ==
  /\ variant = "v2"
  /\ cap = 0
  /\ RunIdle
  /\ call = CallIdle
  /\ \E h \in UnredactHeaps :
       text = [pc |-> "unredact", heap |-> h, msg |-> 1, input |-> Deref(h, 1),
               out |-> 0, again |-> 0]

\* messages.map(unredactMessage) on the message
Unredact ==
  /\ text.pc = "unredact"
  /\ text' = [text EXCEPT !.pc = "once",
                          !.heap = unredactMessage(text.heap, text.msg).heap,
                          !.out = unredactMessage(text.heap, text.msg).out]
  /\ UNCHANGED <<runVars, call>>

\* unredactMessage on what unredactMessage returned
UnredactAgain ==
  /\ text.pc = "once"
  /\ text' = [text EXCEPT !.pc = "twice",
                          !.heap = unredactMessage(text.heap, text.out).heap,
                          !.again = unredactMessage(text.heap, text.out).out]
  /\ UNCHANGED <<runVars, call>>

NextUnredact == Unredact \/ UnredactAgain

SpecUnredact == InitUnredact /\ [][NextUnredact]_vars

----------------------------------------------------------------------------
(* unredactMessage *)

NameHits(v) == Len(FindAll(PLACEHOLDER_NAME, v, TRUE))
EmailHits(v) == Len(FindAll(PLACEHOLDER_EMAIL, v, TRUE))
OtherPlaceholders == {"[REDACTED]", "[REDACTED PHONE]", "[REDACTED COMPANY]"}

\* field value before and after unredactMessage; bare is "name" or "email"
\* in the sender field where a bare "[REDACTED]" stands for it, "none"
\* elsewhere.  The whole value is what the code takes for it: the value
\* without the white space around it.
FieldUnredacted(before, after, bare) ==
  IF bare # "none" /\ trim(before) = "[REDACTED]"
    THEN after = DATA_SUBJECT[bare]
    ELSE /\ NameHits(after) = 0
         /\ EmailHits(after) = 0
         /\ CountOf(DATA_SUBJECT.name, after)
              = CountOf(DATA_SUBJECT.name, before) + NameHits(before)
         /\ CountOf(DATA_SUBJECT.email, after)
              = CountOf(DATA_SUBJECT.email, before) + EmailHits(before)
         /\ \A p \in OtherPlaceholders : CountOf(p, after) = CountOf(p, before)
         /\ (NameHits(before) = 0 /\ EmailHits(before) = 0) => after = before

MessageUnredacted(before, after) ==
  /\ after.id = before.id
  /\ FieldUnredacted(before.subject, after.subject, "none")
  /\ FieldUnredacted(before.body, after.body, "none")
  /\ IF before.sender = Null THEN after.sender = Null
     ELSE /\ FieldUnredacted(before.sender.name, after.sender.name, "name")
          /\ FieldUnredacted(before.sender.email, after.sender.email, "email")
  /\ IF before.recipients = Null THEN after.recipients = Null
     ELSE \A f \in {"to", "cc", "bcc"} :
            FieldUnredacted(before.recipients[f], after.recipients[f], "none")

\* C26: the message unredactMessage returns holds no "[REDACTED NAME]" and
\* no "[REDACTED EMAIL]" in any letter case, each one replaced by the name
\* or the email of the data subject; a bare "[REDACTED]" is replaced only
\* as the whole value of sender.name or sender.email; every other
\* placeholder is as it was; the message that was passed in is as it was;
\* and unredactMessage of the result is equal to the result.
UnredactMessageLaws ==
  /\ text.pc \in {"once", "twice"} =>
       /\ MessageUnredacted(text.input, Deref(text.heap, text.out))
       /\ Deref(text.heap, text.msg) = text.input
  /\ text.pc = "twice" =>
       /\ Deref(text.heap, text.again) = Deref(text.heap, text.out)
       /\ text.again # text.out

\* C26 witness: unredactMessage has run twice on a message whose body has
\* the name placeholder in small letters and a bare "[REDACTED]", and
\* whose sender name is a bare "[REDACTED]".
UnredactedTwice ==
  /\ text.pc = "twice"
  /\ text.input.body = "Dear [Redacted Name], write to [REDACTED  EMAIL] or [REDACTED]"
  /\ text.input.sender # Null
  /\ text.input.sender.name = "[REDACTED]"
  /\ Deref(text.heap, text.out).sender.name = "John Gaskell"
  /\ Deref(text.heap, text.out).body
       = "Dear John Gaskell, write to john@freightlink.co.uk or [REDACTED]"

----------------------------------------------------------------------------
(* Appending to the checkpoint *)

\* C27: in the first run on a clean directory, whatever a worker does after
\* a checkpoint write has thrown, no message id is twice in
\* checkpoint.redactedMessages and processedCount is the number of
\* different input messages that were appended.
AppendedAtMostOnce ==
  runs = 1 =>
    /\ \A id \in AllIds : Count(checkpoint.redactedMessages, id) <= 1
    /\ checkpoint.processedCount = Cardinality(Ids(checkpoint.redactedMessages))

----------------------------------------------------------------------------
(* Running again after a failure *)

\* every input message is in the checkpoint file
AllAppendedOnDisk == disk.kind = "ok" /\ Ids(disk.cp.redactedMessages) = AllIds

\* C28: when a run has failed with every batch appended to the checkpoint
\* file, and redact() can be started again and no write fails any more,
\* then in the end the final collection holds every input message, the
\* audit log is written and the checkpoint file is deleted.
FailedRunRecovers ==
  (phase = "failed" /\ AllAppendedOnDisk /\ runs < MaxRuns /\ faults = MaxFaults)
    ~> (phase = "done" /\ disk = Absent /\ Ids(output) = AllIds)

----------------------------------------------------------------------------
(* The redactions recorded for the recipient fields *)

\* the entries of a recipient field that are not the data subject's
ThirdPartyEntries(value) ==
  {p \in Range(stagePartsOf(value)) : ~isDataSubjectRelated(p)}

\* C29: when applyStageRedactions has recorded a redaction of an original
\* text for recipients.to, recipients.cc or recipients.bcc, the text occurs
\* in no third-party entry of that field of the message it returns.
RecordedMeansRedacted ==
  text.pc = "done" =>
    \A k \in 1..Len(text.applied) :
      \A f \in {"to", "cc", "bcc"} :
        text.applied[k].field = "recipients." \o f =>
          \A p \in ThirdPartyEntries(text.msg.recipients[f]) :
            ~includes(toLowerCase(p), toLowerCase(text.applied[k].original))

----------------------------------------------------------------------------
(* The checkpoint loadCheckpoint returns *)

\* the ids of the batches redact() has made
BatchedIds == UNION {Ids(batches[b]) : b \in 1..Len(batches)}

\* C30: the checkpoint loadCheckpoint returns for a parseable file has
\* processedCount equal to the length of redactedMessages, and (no cap) the
\* messages redact() then sets out to process are exactly the input
\* messages that redactedMessages does not hold.
LoadedCountIsLength ==
  runs > 0 =>
    /\ checkpoint.processedCount = Len(checkpoint.redactedMessages)
    /\ cap = 0 => BatchedIds = AllIds \ Ids(checkpoint.redactedMessages)

====
